---- MODULE Spec2Model ----
(***************************************************************************)
(* Model of simple_model_viewer (src/main.cpp, first revision, lines       *)
(* 1-962): the texture registry (LoadTexture), the material resolver       *)
(* (loadMaterialTextures), the model loader (loadModel), the GPU mesh      *)
(* resource (struct Mesh) and the session driven by main().                *)
(*                                                                         *)
(* Strings are sequences of one-character strings, so that the prefix,     *)
(* search and concatenation steps of the code are computed, not assumed.   *)
(* OpenGL is modelled by the sets of object names that are allocated:      *)
(* glGen* hands out the lowest unused name, glDelete* releases a name.     *)
(***************************************************************************)
EXTENDS Integers, Sequences, FiniteSets, TLC

\* ------------------------------------------------------------------ bounds

\* Longest mesh list of an imported scene.
MaxMeshes == 2
\* Most paths delivered by one drop event.
MaxDropPaths == 2

\* ----------------------------------------------------------------- strings

NUL == "\\0"

\* s[i] of std::string, zero based; s[size()] is the terminating NUL.
CharAt(s, i) == IF i + 1 <= Len(s) THEN s[i + 1] ELSE NUL

\* s.rfind(p, 0) == 0, i.e. s begins with p.
StartsWith(s, p) == Len(s) >= Len(p) /\ SubSeq(s, 1, Len(p)) = p

\* s.find(p) != npos.
Contains(s, p) ==
    \E i \in 1..(Len(s) - Len(p) + 1) : SubSeq(s, i, i + Len(p) - 1) = p

\* s.substr(n).
Substr(s, n) == SubSeq(s, n + 1, Len(s))

Digits == <<"0", "1", "2", "3", "4", "5", "6", "7", "8", "9">>
IsDigit(c) == \E d \in 1..10 : Digits[d] = c
DigitVal(c) == (CHOOSE d \in 1..10 : Digits[d] = c) - 1
IsSpace(c) == c = " "

RECURSIVE SkipSpace(_)
SkipSpace(s) == IF s # <<>> /\ IsSpace(s[1]) THEN SkipSpace(Tail(s)) ELSE s

RECURSIVE DigitRun(_, _, _)
\* The leading run of digits of s: [n |-> digits read, v |-> their value].
DigitRun(s, n, v) ==
    IF s # <<>> /\ IsDigit(s[1])
    THEN DigitRun(Tail(s), n + 1, 10 * v + DigitVal(s[1]))
    ELSE [n |-> n, v |-> v]

\* std::stoi(s): skips white space, reads an optional sign and the leading
\* digits; throws std::invalid_argument when there is no digit and
\* std::out_of_range when the value does not fit an int.
Stoi(s) ==
    LET t    == SkipSpace(s)
        neg  == t # <<>> /\ t[1] = "-"
        sgn  == t # <<>> /\ t[1] \in {"-", "+"}
        run  == DigitRun(IF sgn THEN Tail(t) ELSE t, 0, 0)
        val  == IF neg THEN 0 - run.v ELSE run.v
    IN  IF run.n = 0 \/ val > 2147483647 \/ val < (0 - 2147483647) - 1
        THEN [threw |-> TRUE, value |-> 0]
        ELSE [threw |-> FALSE, value |-> val]

\* Position (1-based) of the last '/' of p, 0 when there is none.
LastSlash(p) ==
    IF \E i \in 1..Len(p) : p[i] = "/"
    THEN CHOOSE i \in 1..Len(p) : p[i] = "/" /\ \A j \in (i + 1)..Len(p) : p[j] # "/"
    ELSE 0

\* std::filesystem::path(p).filename().string() for the POSIX paths used here.
Filename(p) == SubSeq(p, LastSlash(p) + 1, Len(p))

\* std::filesystem::path(p).parent_path().string(): "" for a bare file name,
\* "/" for a file in the root directory, else the text before the last '/'.
ParentPath(p) ==
    LET k == LastSlash(p)
    IN  IF k = 0 THEN <<>>
        ELSE IF k = 1 THEN <<"/">>
        ELSE SubSeq(p, 1, k - 1)

\* -------------------------------------------------------------- the inputs

\* Texture path tokens a material can carry: embedded texture 0, an
\* embedded token whose index is no number, a relative file name.
TokEmbedded0 == <<"*", "0">>
TokEmbeddedX == <<"*", "x">>
TokRelative  == <<"a">>
Tokens == {TokEmbedded0, TokEmbeddedX, TokRelative}

\* The files a session loads: a model file, whose content can be any scene
\* and can change between two loads, and a file that no importer reads.
ModelFile == <<"d", "/", "m">>
OtherFile == <<"d", "/", "n">>
ModelPaths == {ModelFile, OtherFile}

\* Image files a texture token can resolve to.
ImagePaths == {<<"d", "/", "a">>}

\* What a decoder yields: the channel count, 0 when it returns no data.
Channels == {0, 2, 3}

\* The image files on disk at the time of a load: path -> channels.
Disks == [ImagePaths -> {0, 3}]

\* Embedded textures (aiTexture): mHeight 0 is a compressed blob whose
\* decoding yields `channels`; mHeight > 0 is raw aiTexel data.
RawTexel == [mHeight |-> 1, channels |-> 4]
EmbeddedTextures == {RawTexel} \cup {[mHeight |-> 0, channels |-> c] : c \in Channels}
EmbeddedTables == {<<>>} \cup {<<t>> : t \in EmbeddedTextures}

\* Materials: the tokens of the base-color slots and of the diffuse slots.
NoTextures == [base |-> <<>>, diffuse |-> <<>>]
LegacyDiffuse == [base |-> <<>>, diffuse |-> <<TokRelative>>]
EmbeddedMaterials == {
    [base |-> <<TokEmbedded0>>, diffuse |-> <<TokRelative>>],
    [base |-> <<TokRelative, TokEmbedded0, TokRelative>>, diffuse |-> <<TokEmbedded0>>],
    [base |-> <<TokRelative, TokEmbeddedX>>, diffuse |-> <<TokRelative>>] }

\* An aiMesh.  Floats are written in tenths (0.8f is 8).  Vertex v (zero
\* based) of the meshes used here has position (100v+1, 100v+2, 100v+3),
\* normal (100v+11, ..), color r, g, b, a (100v+21, ..) and texture
\* coordinate x, y, z (100v+31, ..), so that every float of the vertex
\* buffer tells where it came from.  An absent array (nullptr) is <<>>;
\* mFaces lists the mIndices of each face.
AiMesh(n, hasNormals, hasColors, hasUVs, faces) ==
    [mNumVertices   |-> n,
     mVertices      |-> [v \in 1..n |-> <<100 * (v - 1) + 1, 100 * (v - 1) + 2,
                                          100 * (v - 1) + 3>>],
     mNormals       |-> IF hasNormals
                        THEN [v \in 1..n |-> <<100 * (v - 1) + 11, 100 * (v - 1) + 12,
                                               100 * (v - 1) + 13>>]
                        ELSE <<>>,
     mColors        |-> IF hasColors
                        THEN [v \in 1..n |-> <<100 * (v - 1) + 21, 100 * (v - 1) + 22,
                                               100 * (v - 1) + 23, 100 * (v - 1) + 24>>]
                        ELSE <<>>,
     mTextureCoords |-> IF hasUVs
                        THEN [v \in 1..n |-> <<100 * (v - 1) + 31, 100 * (v - 1) + 32,
                                               100 * (v - 1) + 33>>]
                        ELSE <<>>,
     mFaces         |-> faces]

\* Geometry of the scenes of a session: a triangle, a mesh without
\* vertices, a mesh without faces.
FullGeometry == AiMesh(3, TRUE, FALSE, TRUE, << <<0, 1, 2>> >>)
NoVertices   == AiMesh(0, FALSE, FALSE, FALSE, << <<0, 1, 2>> >>)
NoFaces      == AiMesh(3, TRUE, FALSE, TRUE, <<>>)

SeqUpTo(S, n) == UNION {[1..k -> S] : k \in 0..n}

\* What Importer::ReadFile yields: ok is FALSE when there is no scene, the
\* scene is flagged incomplete or has no root node.
FailedImport == [ok |-> FALSE, meshes |-> <<>>, textures |-> <<>>]

\* Scenes of one mesh whose material refers to embedded textures, with
\* every embedded-texture table.
TextureScenes ==
    [ok : {TRUE},
     meshes : {<<[geometry |-> FullGeometry, material |-> m]>> : m \in EmbeddedMaterials},
     textures : EmbeddedTables]

\* Scenes of up to MaxMeshes meshes, with and without vertices and texture.
MeshListScenes ==
    [ok : {TRUE},
     meshes : SeqUpTo({[geometry |-> FullGeometry, material |-> NoTextures],
                       [geometry |-> FullGeometry, material |-> LegacyDiffuse],
                       [geometry |-> NoVertices, material |-> LegacyDiffuse]},
                      MaxMeshes),
     textures : {<<>>}]

\* A scene whose only mesh has vertices and no face.
NoFacesScene ==
    [ok |-> TRUE, meshes |-> <<[geometry |-> NoFaces, material |-> NoTextures]>>,
     textures |-> <<>>]

Scenes == {FailedImport, NoFacesScene} \cup TextureScenes \cup MeshListScenes

\* What importing the file at path can yield.
ScenesAt(path) == IF path = ModelFile THEN Scenes ELSE {FailedImport}

\* The disks that differ for a load of this scene (an import that fails
\* reads no image).
DisksFor(scene) == IF scene.ok THEN Disks ELSE {[p \in ImagePaths |-> 0]}

\* ------------------------------------------------------------------ OpenGL

\* The GL state the program touches: the allocated vertex array, buffer and
\* texture names, whether the context still exists, and two observations:
\* badDelete (a glDelete* call named a nonzero name that is not allocated,
\* i.e. a second release) and noCtxCall (a glDelete* call was made after the
\* context was destroyed).
GLInit == [vaos |-> {}, bufs |-> {}, texs |-> {},
           ctx |-> TRUE, badDelete |-> FALSE, noCtxCall |-> FALSE]

\* glGen*: the lowest name that is not in use.
GenName(inUse) ==
    CHOOSE n \in 1..(Cardinality(inUse) + 1) :
        n \notin inUse /\ \A m \in 1..(n - 1) : m \in inUse

\* glDelete* of one name of the object kind `field`.
GLDelete(gl, field, name) ==
    IF ~gl.ctx THEN [gl EXCEPT !.noCtxCall = TRUE]
    ELSE IF name \in gl[field] THEN [gl EXCEPT ![field] = @ \ {name}]
    ELSE IF name # 0 THEN [gl EXCEPT !.badDelete = TRUE]
    ELSE gl

\* -------------------------------------------------------- Texture Registry

isEmbedded(token) == StartsWith(token, <<"*">>)

\* A mutant of the key: an embedded token is its own key.
CacheKeyTokenOnly(token, modelDirectory, modelFilePath) ==
    IF StartsWith(token, <<"*">>) THEN token
    ELSE IF /\ ~Contains(token, <<":", "/">>)
            /\ ~Contains(token, <<":", "\\">>)
            /\ CharAt(token, 0) # "/"
         THEN modelDirectory \o <<"/">> \o token
         ELSE token

\* A mutant of the key: every file token is joined to the model directory.
CacheKeyAlwaysJoined(token, modelDirectory, modelFilePath) ==
    IF StartsWith(token, <<"*">>) THEN modelFilePath \o token
    ELSE modelDirectory \o <<"/">> \o token

\* The cache key of LoadTexture.
CacheKey(token, modelDirectory, modelFilePath) ==
    IF isEmbedded(token)
    THEN modelFilePath \o token
    ELSE IF /\ ~Contains(token, <<":", "/">>)
            /\ ~Contains(token, <<":", "\\">>)
            /\ CharAt(token, 0) # "/"
         THEN modelDirectory \o <<"/">> \o token
         ELSE token

\* The linear search of the cache: index of the first entry with this path,
\* 0 when there is none.
CacheFind(cache, key) ==
    IF \E i \in 1..Len(cache) : cache[i].path = key
    THEN CHOOSE i \in 1..Len(cache) :
             cache[i].path = key /\ \A j \in 1..(i - 1) : cache[j].path # key
    ELSE 0

\* stbi_load(path): the channel count of the image at path, 0 for no data.
StbiLoad(disk, path) == IF path \in DOMAIN disk THEN disk[path] ELSE 0

\* The pixel data of an embedded token: [threw, channels, decoded]; channels
\* 0 is "data == nullptr", decoded tells that stbi_load_from_memory was run.
\* `scene` is NoScene for a null scene pointer.
NoScene == [ok |-> FALSE, meshes |-> <<>>, textures |-> <<>>]
EmbeddedAt(textureIndex, scene) ==
    IF textureIndex.threw THEN [threw |-> TRUE, channels |-> 0, decoded |-> FALSE]
    ELSE IF /\ scene.ok /\ textureIndex.value >= 0
            /\ textureIndex.value < Len(scene.textures)
    THEN LET t == scene.textures[textureIndex.value + 1]
         IN  IF t.mHeight = 0
             THEN [threw |-> FALSE, channels |-> t.channels, decoded |-> TRUE]
             ELSE [threw |-> FALSE, channels |-> 4, decoded |-> FALSE]
    ELSE [threw |-> FALSE, channels |-> 0, decoded |-> FALSE]

\* textureIndex = std::stoi(texturePathAssimp.substr(1)), then the lookup.
EmbeddedData(token, scene) == EmbeddedAt(Stoi(Substr(token, 1)), scene)

\* A mutant of the cache lookup: it never finds an entry.
CacheLookupMiss(cache, key) == 0

\* The lookup step of LoadTexture.
CacheLookup(cache, key) == CacheFind(cache, key)

\* A mutant of the registration: the new texture is not recorded.
RecordNothing(cache, textureID, cacheKey) == cache

\* g_loadedTexturesCache.push_back(newTexCacheEntry).
RecordTexture(cache, textureID, cacheKey) ==
    Append(cache, [id |-> textureID, path |-> cacheKey])

\* LoadTexture: the result record holds
\*   threw    an exception left the call (cache and gl are then the state at
\*            the throw)
\*   ret      the returned GLuint
\*   hit      the key was found in the cache
\*   decoded  a decoder was run, uploaded: glTexImage2D was called
\* The body of LoadTexture once the key is built: embedded is isEmbedded,
\* found the result of the cache check, textureID the name glGenTextures
\* gives on a miss, data = [threw, channels, decoded] the pixel data.
Resolve(embedded, cacheKey, found, textureID, data, cache, gl) ==
    IF found # 0
    THEN [threw |-> FALSE, ret |-> cache[found].id, key |-> cacheKey,
          hit |-> TRUE, decoded |-> FALSE, uploaded |-> FALSE,
          cache |-> cache, gl |-> gl]
    ELSE IF embedded /\ data.threw
    THEN [threw |-> TRUE, ret |-> 0, key |-> cacheKey,
          hit |-> FALSE, decoded |-> data.decoded, uploaded |-> FALSE,
          cache |-> cache, gl |-> [gl EXCEPT !.texs = @ \cup {textureID}]]
    ELSE IF data.channels \notin {1, 3, 4}
    THEN [threw |-> FALSE, ret |-> 0, key |-> cacheKey,
          hit |-> FALSE, decoded |-> data.decoded, uploaded |-> FALSE,
          cache |-> cache,
          gl |-> GLDelete([gl EXCEPT !.texs = @ \cup {textureID}], "texs", textureID)]
    ELSE [threw |-> FALSE, ret |-> textureID, key |-> cacheKey,
          hit |-> FALSE, decoded |-> data.decoded, uploaded |-> TRUE,
          cache |-> RecordTexture(cache, textureID, cacheKey),
          gl |-> [gl EXCEPT !.texs = @ \cup {textureID}]]

\* The pixel data of a key that missed the cache: [threw, channels, decoded].
PixelData(embedded, token, scene, disk, cacheKey) ==
    IF embedded THEN EmbeddedData(token, scene)
    ELSE [threw |-> FALSE, channels |-> StbiLoad(disk, cacheKey), decoded |-> TRUE]

LoadTextureAt(token, scene, disk, cacheKey, cache, gl) ==
    Resolve(isEmbedded(token), cacheKey, CacheLookup(cache, cacheKey),
            GenName(gl.texs),
            PixelData(isEmbedded(token), token, scene, disk, cacheKey),
            cache, gl)

LoadTexture(token, modelDirectory, scene, modelFilePath, disk, cache, gl) ==
    LoadTextureAt(token, scene, disk,
                  CacheKey(token, modelDirectory, modelFilePath), cache, gl)

\* ------------------------------------------------------- Material Resolver

\* A mutant of the path copy: the path of the first cache entry is taken.
CachedPathOfFirst(cache, textureId) ==
    IF cache # <<>> THEN cache[1].path ELSE <<>>

\* texture.path: the path of the first cache entry with this id.
CachedPath(cache, textureId) ==
    IF \E i \in 1..Len(cache) : cache[i].id = textureId
    THEN cache[CHOOSE i \in 1..Len(cache) :
                   cache[i].id = textureId /\ \A j \in 1..(i - 1) : cache[j].id # textureId].path
    ELSE <<>>

\* The body of a slot loop after LoadTexture returned r for the token of
\* slot i: the texture is appended when the handle is not 0.
SlotDone(acc, kind, i, token, r) ==
    [threw    |-> r.threw,
     textures |-> IF ~r.threw /\ r.ret # 0
                  THEN Append(acc.textures,
                              [id |-> r.ret, type |-> "texture_diffuse",
                               path |-> CachedPath(r.cache, r.ret)])
                  ELSE acc.textures,
     cache    |-> r.cache,
     gl       |-> r.gl,
     calls    |-> Append(acc.calls,
                         [kind |-> kind, slot |-> i, token |-> token,
                          key |-> r.key, threw |-> r.threw, ret |-> r.ret,
                          hit |-> r.hit, decoded |-> r.decoded,
                          uploaded |-> r.uploaded,
                          before |-> Len(acc.cache), after |-> Len(r.cache)])]

RECURSIVE LoadSlots(_, _, _, _, _, _, _, _)
\* One loop of loadMaterialTextures over the slots `tokens` of one texture
\* type, from slot i on.  acc = [threw, textures, cache, gl, calls].
LoadSlots(tokens, i, kind, modelDirectory, scene, modelFilePath, disk, acc) ==
    IF acc.threw \/ i > Len(tokens) THEN acc
    ELSE LoadSlots(tokens, i + 1, kind, modelDirectory, scene, modelFilePath, disk,
                   SlotDone(acc, kind, i, tokens[i],
                            LoadTexture(tokens[i], modelDirectory, scene,
                                        modelFilePath, disk, acc.cache, acc.gl)))

\* A mutant of the fallback test: the diffuse slots are always attempted.
UseDiffuseFallbackAlways(textures) == TRUE

\* "if (textures.empty())": whether the diffuse slots are attempted.
UseDiffuseFallback(textures) == textures = <<>>

\* loadMaterialTextures after the base-color loop ended in `base`.
DiffusePass(mat, modelDirectory, scene, modelFilePath, disk, base) ==
    IF ~base.threw /\ UseDiffuseFallback(base.textures)
    THEN LoadSlots(mat.diffuse, 1, "diffuse", modelDirectory, scene,
                   modelFilePath, disk, base)
    ELSE base

loadMaterialTextures(mat, modelDirectory, scene, modelFilePath, disk, cache, gl) ==
    DiffusePass(mat, modelDirectory, scene, modelFilePath, disk,
                LoadSlots(mat.base, 1, "base", modelDirectory, scene,
                          modelFilePath, disk,
                          [threw |-> FALSE, textures |-> <<>>, cache |-> cache,
                           gl |-> gl, calls |-> <<>>]))

\* ------------------------------------------------------- GPU Mesh Resource

\* Mesh() = default.
EmptyMesh == [VAO |-> 0, VBO |-> 0, EBO |-> 0, indexCount |-> 0, textures |-> <<>>]

\* A mutant of the constructor: buffers are generated whatever the sizes.
MeshCtorAllocatesAlways(vertexCount, indexCount, meshTextures, gl) ==
    LET vao == GenName(gl.vaos)
        vbo == GenName(gl.bufs)
        ebo == GenName(gl.bufs \cup {vbo})
    IN  [mesh |-> [VAO |-> vao, VBO |-> vbo, EBO |-> ebo,
                   indexCount |-> indexCount, textures |-> meshTextures],
         gl   |-> [gl EXCEPT !.vaos = @ \cup {vao}, !.bufs = @ \cup {vbo, ebo}]]

\* Mesh(vertexData, indices, meshTextures): [mesh, gl].
MeshCtor(vertexCount, indexCount, meshTextures, gl) ==
    IF indexCount = 0 \/ vertexCount = 0
    THEN [mesh |-> [EmptyMesh EXCEPT !.indexCount = indexCount,
                                     !.textures = meshTextures],
          gl   |-> gl]
    ELSE LET vao == GenName(gl.vaos)
             vbo == GenName(gl.bufs)
             ebo == GenName(gl.bufs \cup {vbo})
         IN  [mesh |-> [VAO |-> vao, VBO |-> vbo, EBO |-> ebo,
                        indexCount |-> indexCount, textures |-> meshTextures],
              gl   |-> [gl EXCEPT !.vaos = @ \cup {vao}, !.bufs = @ \cup {vbo, ebo}]]

\* A mutant of the destructor: only the vertex array is deleted.
MeshDtorKeepsBuffers(m, gl) ==
    IF m.VAO # 0 THEN GLDelete(gl, "vaos", m.VAO) ELSE gl

\* ~Mesh(): the GL state after the destructor.
MeshDtor(m, gl) ==
    LET g1 == IF m.EBO # 0 THEN GLDelete(gl, "bufs", m.EBO) ELSE gl
        g2 == IF m.VBO # 0 THEN GLDelete(g1, "bufs", m.VBO) ELSE g1
    IN  IF m.VAO # 0 THEN GLDelete(g2, "vaos", m.VAO) ELSE g2

\* A mutant of the move: the source keeps its handles.
MovedFromKeepsHandles(other) == [other EXCEPT !.textures = <<>>]

\* What a move leaves in `other`.
MovedFrom(other) ==
    [other EXCEPT !.VAO = 0, !.VBO = 0, !.EBO = 0, !.indexCount = 0,
                  !.textures = <<>>]

\* Mesh(Mesh &&other): [self, other].
MeshMoveCtor(other) ==
    [self  |-> [VAO |-> other.VAO, VBO |-> other.VBO, EBO |-> other.EBO,
                indexCount |-> other.indexCount, textures |-> other.textures],
     other |-> MovedFrom(other)]

\* operator=(Mesh &&other) with this != &other: [self, other, gl].
MeshMoveAssign(self, other, gl) ==
    [self  |-> [VAO |-> other.VAO, VBO |-> other.VBO, EBO |-> other.EBO,
                indexCount |-> other.indexCount, textures |-> other.textures],
     other |-> MovedFrom(other),
     gl    |-> MeshDtor([self EXCEPT !.textures = <<>>], gl)]

\* The index of the first texture that draw binds, 0 when there is none.
FirstDiffuse(textures) ==
    IF \E i \in 1..Len(textures) : textures[i].type = "texture_diffuse" /\ textures[i].id # 0
    THEN CHOOSE i \in 1..Len(textures) :
             /\ textures[i].type = "texture_diffuse" /\ textures[i].id # 0
             /\ \A j \in 1..(i - 1) :
                    ~(textures[j].type = "texture_diffuse" /\ textures[j].id # 0)
    ELSE 0

\* A mutant of Mesh::draw: the flag uniform is written only for a mesh with
\* a diffuse texture.
DrawSetsFlagOnly(m, program) ==
    IF m.VAO = 0 \/ m.indexCount = 0 THEN <<>>
    ELSE (IF FirstDiffuse(m.textures) # 0
          THEN << [op |-> "glActiveTexture", arg |-> 0],
                  [op |-> "glBindTexture",
                   arg |-> m.textures[FirstDiffuse(m.textures)].id],
                  [op |-> "glUseProgram", arg |-> program],
                  [op |-> "uHasDiffuseTexture", arg |-> 1] >>
          ELSE << [op |-> "glUseProgram", arg |-> program] >>)
         \o << [op |-> "glBindVertexArray", arg |-> m.VAO],
               [op |-> "glDrawElements", arg |-> m.indexCount],
               [op |-> "glBindVertexArray", arg |-> 0] >>

\* Mesh::draw: the GL commands it issues, in order.
Draw(m, shaderId) ==
    IF m.VAO = 0 \/ m.indexCount = 0 THEN <<>>
    ELSE
      LET d == FirstDiffuse(m.textures)
      IN  (IF d # 0
           THEN << [op |-> "glActiveTexture", arg |-> 0],
                   [op |-> "glBindTexture", arg |-> m.textures[d].id] >>
           ELSE <<>>)
          \o (IF shaderId # 0 THEN << [op |-> "glUseProgram", arg |-> shaderId] >>
              ELSE <<>>)
          \o << [op |-> "uHasDiffuseTexture", arg |-> IF d # 0 THEN 1 ELSE 0],
                [op |-> "glBindVertexArray", arg |-> m.VAO],
                [op |-> "glDrawElements", arg |-> m.indexCount],
                [op |-> "glBindVertexArray", arg |-> 0] >>

\* ------------------------------------------------------------ std::vector

RECURSIVE DestroyAll(_, _)
\* Destroys the elements of a vector<Mesh> in index order.
DestroyAll(elems, gl) ==
    IF elems = <<>> THEN gl ELSE DestroyAll(Tail(elems), MeshDtor(Head(elems), gl))

RECURSIVE Relocate(_, _, _)
\* Reallocation of a vector<Mesh>: every element is move-constructed into
\* the new storage and its moved-from source is destroyed.
\* acc = [elems, gl].
Relocate(old, acc, i) ==
    IF i > Len(old) THEN acc
    ELSE Relocate(old,
                  [elems |-> Append(acc.elems, MeshMoveCtor(old[i]).self),
                   gl    |-> MeshDtor(MeshMoveCtor(old[i]).other, acc.gl)],
                  i + 1)

\* The capacity after a growing emplace_back (doubling, as in libstdc++).
GrownCapacity(capacity) == IF capacity = 0 THEN 1 ELSE capacity + capacity

\* The vector after a growing emplace_back: `moved` = [elems, gl] are the
\* relocated elements, mesh the new one.
Grow(vec, mesh, moved) ==
    [elems |-> Append(moved.elems, mesh),
     capacity |-> GrownCapacity(vec.capacity),
     gl |-> moved.gl]

\* The new element `made` = [mesh, gl] is constructed first; a full vector
\* then relocates its elements.
Emplace(vec, made) ==
    IF Len(vec.elems) < vec.capacity
    THEN [elems |-> Append(vec.elems, made.mesh), capacity |-> vec.capacity,
          gl |-> made.gl]
    ELSE Grow(vec, made.mesh,
              Relocate(vec.elems, [elems |-> <<>>, gl |-> made.gl], 1))

\* meshes_vec.emplace_back(vertexData, indices, meshTextures) on the vector
\* vec = [elems, capacity]: [elems, capacity, gl].
EmplaceBack(vec, vertexCount, indexCount, meshTextures, gl) ==
    Emplace(vec, MeshCtor(vertexCount, indexCount, meshTextures, gl))

\* A mutant of clear(): the elements stay.
KeepMeshes(meshes, g) == [meshes |-> meshes, gl |-> g]

\* meshes_main.clear(): [meshes, gl].
ClearMeshes(meshes, g) == [meshes |-> <<>>, gl |-> DestroyAll(meshes, g)]

\* meshes_main = std::move(newMeshes) (also meshes_main = loadModel(...)):
\* the old elements are destroyed, the storage of newMeshes is taken over.
MoveAssignMeshes(meshes, newMeshes, g) ==
    [meshes |-> newMeshes, gl |-> DestroyAll(meshes, g)]

\* ------------------------------------------------------------ Model Loader

\* The default of loadModel's parameter defaultColor, (0.8, 0.8, 0.8).
DefaultColor == <<8, 8, 8>>

\* mesh_ptr->HasNormals(), HasVertexColors(0), HasTextureCoords(0).
HasNormals(mesh_ptr) == mesh_ptr.mNormals # <<>> /\ mesh_ptr.mNumVertices > 0
HasVertexColors(mesh_ptr) == mesh_ptr.mColors # <<>> /\ mesh_ptr.mNumVertices > 0
HasTextureCoords(mesh_ptr) == mesh_ptr.mTextureCoords # <<>> /\ mesh_ptr.mNumVertices > 0

\* A mutant of the vertex record: the color is written before the normal.
VertexRecordColorFirst(mesh_ptr, v, defaultColor) ==
    mesh_ptr.mVertices[v + 1]
        \o (IF HasVertexColors(mesh_ptr) THEN SubSeq(mesh_ptr.mColors[v + 1], 1, 3)
            ELSE defaultColor)
        \o (IF HasNormals(mesh_ptr) THEN mesh_ptr.mNormals[v + 1] ELSE <<0, 0, 0>>)
        \o (IF HasTextureCoords(mesh_ptr)
            THEN SubSeq(mesh_ptr.mTextureCoords[v + 1], 1, 2)
            ELSE <<0, 0>>)

\* The floats pushed for vertex v (zero based) by one pass of the vertex loop.
VertexRecord(mesh_ptr, v, defaultColor) ==
    mesh_ptr.mVertices[v + 1]
        \o (IF HasNormals(mesh_ptr) THEN mesh_ptr.mNormals[v + 1] ELSE <<0, 0, 0>>)
        \o (IF HasVertexColors(mesh_ptr) THEN SubSeq(mesh_ptr.mColors[v + 1], 1, 3)
            ELSE defaultColor)
        \o (IF HasTextureCoords(mesh_ptr)
            THEN SubSeq(mesh_ptr.mTextureCoords[v + 1], 1, 2)
            ELSE <<0, 0>>)

RECURSIVE VertexLoop(_, _, _)
\* The vertex loop of loadModel from vertex v on.
VertexLoop(mesh_ptr, v, defaultColor) ==
    IF v >= mesh_ptr.mNumVertices THEN <<>>
    ELSE VertexRecord(mesh_ptr, v, defaultColor)
             \o VertexLoop(mesh_ptr, v + 1, defaultColor)

\* vertexData of one mesh.
VertexData(mesh_ptr, defaultColor) == VertexLoop(mesh_ptr, 0, defaultColor)

\* A mutant of the face loop: only faces of three indices are kept.
FaceIndicesTrianglesOnly(face) == IF Len(face) = 3 THEN face ELSE <<>>

\* The indices pushed for one face: its mIndices in order.
FaceIndices(face) == face

RECURSIVE FaceLoop(_, _)
\* The face loop of loadModel from face f (zero based) on.
FaceLoop(mesh_ptr, f) ==
    IF f >= Len(mesh_ptr.mFaces) THEN <<>>
    ELSE FaceIndices(mesh_ptr.mFaces[f + 1]) \o FaceLoop(mesh_ptr, f + 1)

\* indices of one mesh.
Indices(mesh_ptr) == FaceLoop(mesh_ptr, 0)

\* indices.size() after the face loop.
IndexCount(geometry) == Len(Indices(geometry))

\* The LoadTexture calls of mesh i, each tagged with the index of its mesh.
Tagged(i, calls) == [k \in 1..Len(calls) |-> [mesh |-> i] @@ calls[k]]

\* The end of one pass of the mesh loop: vec is meshes_vec after emplace_back.
MeshAppended(acc, i, mt, vec) ==
    [threw |-> FALSE, elems |-> vec.elems, capacity |-> vec.capacity,
     cache |-> mt.cache, gl |-> vec.gl,
     calls |-> acc.calls \o Tagged(i, mt.calls)]

\* A mutant of the mesh loop: a mesh with an empty buffer is not appended.
MeshDoneSkipsEmpty(acc, i, geometry, mt) ==
    IF mt.threw \/ geometry.mNumVertices = 0 \/ IndexCount(geometry) = 0
    THEN [acc EXCEPT !.threw = mt.threw, !.cache = mt.cache, !.gl = mt.gl,
                     !.calls = @ \o Tagged(i, mt.calls)]
    ELSE MeshAppended(acc, i, mt,
                      EmplaceBack([elems |-> acc.elems, capacity |-> acc.capacity],
                                  Len(VertexData(geometry, DefaultColor)),
                                  IndexCount(geometry),
                                  mt.textures, mt.gl))

\* One pass of the mesh loop of loadModel after loadMaterialTextures ended
\* in mt: an exception leaves the loop, else the mesh is appended.
MeshDone(acc, i, geometry, mt) ==
    IF mt.threw
    THEN [acc EXCEPT !.threw = TRUE, !.cache = mt.cache, !.gl = mt.gl,
                     !.calls = @ \o Tagged(i, mt.calls)]
    ELSE MeshAppended(acc, i, mt,
                      EmplaceBack([elems |-> acc.elems, capacity |-> acc.capacity],
                                  Len(VertexData(geometry, DefaultColor)),
                                  IndexCount(geometry),
                                  mt.textures, mt.gl))

RECURSIVE LoadMeshes(_, _, _, _, _, _)
\* The mesh loop of loadModel from mesh i on.
\* acc = [threw, elems, capacity, cache, gl, calls]; calls lists the
\* LoadTexture calls made, each tagged with the index of its mesh.
LoadMeshes(scene, i, path, directory, disk, acc) ==
    IF acc.threw \/ i > Len(scene.meshes) THEN acc
    ELSE LoadMeshes(scene, i + 1, path, directory, disk,
                    MeshDone(acc, i, scene.meshes[i].geometry,
                             loadMaterialTextures(scene.meshes[i].material,
                                                  directory, scene, path, disk,
                                                  acc.cache, acc.gl)))

\* loadModel(path, directory): [threw, elems, capacity, cache, gl, calls].
\* When threw, elems are the meshes of the local meshes_vec at the throw.
loadModel(path, directory, scene, disk, cache, gl) ==
    IF ~scene.ok
    THEN [threw |-> FALSE, elems |-> <<>>, capacity |-> 0,
          cache |-> cache, gl |-> gl, calls |-> <<>>]
    ELSE LoadMeshes(scene, 1, path, directory, disk,
                    [threw |-> FALSE, elems |-> <<>>, capacity |-> 0,
                     cache |-> cache, gl |-> gl, calls |-> <<>>])

\* ----------------------------------------------------------------- session

VARIABLES
    pc,                       \* position of main()
    meshes_main,              \* the meshes of the currently loaded model
    g_loadedTexturesCache,    \* the texture registry
    g_droppedModelPath,       \* pending load request: the path
    g_newModelPathAvailable,  \* pending load request: the flag
    statusMessage,            \* the status shown in the window title
    shouldClose,              \* the window's close flag
    shaderId,                 \* shader.id, 0 before the Shader is constructed
    gl,                       \* the OpenGL state
    lastLoad,                 \* observation: the latest loadModel call, kept
                              \* until the next load request arrives
    render,                   \* the OpenGL draw state and the draw calls made
                              \* since the last glClear
    camera,                   \* the CameraController
    mouse,                    \* the window's cursor position and the mouse
                              \* buttons that are down
    probe,                    \* the argument and result of a function
                              \* applied on its own (ProbeSpec)
    g_autoRotateModel,        \* the auto-rotation setting
    totalRotationAngle        \* main: the accumulated rotation angle, in
                              \* tenths of a radian

vars == <<pc, meshes_main, g_loadedTexturesCache, g_droppedModelPath,
          g_newModelPathAvailable, statusMessage, shouldClose, shaderId, gl,
          lastLoad, render, camera, mouse, probe, g_autoRotateModel,
          totalRotationAngle>>

NoLoad == [kind |-> "none", path |-> <<>>, scene |-> FailedImport, threw |-> FALSE,
           elems |-> <<>>, calls |-> <<>>]

\* The record of one loadModel call and its result r: the scene imported,
\* whether an exception left the call, the meshes returned (at a throw: the
\* meshes built so far) and the LoadTexture calls made.
LoadRecord(kind, path, scene, r) ==
    [kind |-> kind, path |-> path, scene |-> scene, threw |-> r.threw,
     elems |-> r.elems, calls |-> r.calls]

StrModelViewer  == <<"M", "o", "d", "e", "l", " ", "V", "i", "e", "w", "e", "r">>
StrDash         == <<" ", "-", " ">>
StrPaused       == <<" ", "(", "P", "a", "u", "s", "e", "d", ")">>
StrLoaded       == <<"L", "o", "a", "d", "e", "d", ":", " ">>
StrErrorInitial == <<"E", "r", "r", "o", "r", " ", "l", "o", "a", "d", "i", "n", "g",
                     " ", "i", "n", "i", "t", "i", "a", "l", ":", " ">>
StrError        == <<"E", "r", "r", "o", "r", " ", "l", "o", "a", "d", "i", "n", "g",
                     ":", " ">>
StrDragDrop     == <<".", " ", "D", "r", "a", "g", " ", "&", " ", "d", "r", "o", "p", ".">>
StrPrompt       == <<"D", "r", "a", "g", " ", "&", " ", "d", "r", "o", "p", " ", "a", " ",
                     "m", "o", "d", "e", "l", " ", "f", "i", "l", "e", " ", "t", "o", " ",
                     "l", "o", "a", "d", ".">>

\* The draw state of a fresh context: no program in use, texture unit 0
\* active with nothing bound, the uniform at its default 0.  draws lists
\* the glDrawElements calls since the last glClear, each with the state in
\* effect; frames tells whether a frame has been rendered, uniforms lists
\* the uniforms written since the last glClear, title is the window title.
RenderInit ==
    [program |-> 0, activeUnit |-> 0, unit0 |-> 0, uHasDiffuseTexture |-> 0,
     vao |-> 0, draws |-> <<>>, frames |-> FALSE, uniforms |-> {},
     title |-> StrModelViewer]

\* The camera before "CameraController camera(window)" has run.
NoCamera == [constructed |-> FALSE]

\* The window's mouse state: cursor at the origin, no button down.
MouseInit == [x |-> 0, y |-> 0, held |-> {}]

NoProbe == [op |-> "none"]

Init ==
    /\ render = RenderInit
    /\ camera = NoCamera
    /\ mouse = MouseInit
    /\ probe = NoProbe
    /\ g_autoRotateModel = TRUE
    /\ totalRotationAngle = 0
    /\ pc = "start"
    /\ meshes_main = <<>>
    /\ g_loadedTexturesCache = <<>>
    /\ g_droppedModelPath = <<>>
    /\ g_newModelPathAvailable = FALSE
    /\ statusMessage = <<>>
    /\ shouldClose = FALSE
    /\ shaderId = 0
    /\ gl = GLInit
    /\ lastLoad = NoLoad

\* An exception leaves main uncaught: std::terminate.  Whether the stack is
\* unwound first is implementation-defined; when it is, the loader's local
\* meshes (localMeshes) and then meshes_main are destroyed.
Terminate(unwind, localMeshes, glAtThrow) ==
    /\ pc' = "crashed"
    /\ IF unwind
       THEN /\ meshes_main' = <<>>
            /\ gl' = DestroyAll(meshes_main, DestroyAll(localMeshes, glAtThrow))
       ELSE /\ meshes_main' = meshes_main
            /\ gl' = glAtThrow

\* main, "argc > 1" false: no initial model.
StartEmpty ==
    /\ pc = "start"
    /\ statusMessage' = StrPrompt
    /\ pc' = "shader"
    /\ UNCHANGED <<meshes_main, g_loadedTexturesCache, g_droppedModelPath,
                   g_newModelPathAvailable, shouldClose, shaderId, gl, lastLoad,
                   render, camera, mouse, probe,
                   g_autoRotateModel, totalRotationAngle>>

\* main, "argc > 1": the initial model fullPath is loaded; InitialLoaded is
\* what follows the return of loadModel with r (meshes_main = loadModel(...),
\* then the status message).
InitialLoaded(fullPath, scene, r) ==
    /\ lastLoad' = LoadRecord("initial", fullPath, scene, r)
    /\ g_loadedTexturesCache' = r.cache
    /\ IF r.threw
       THEN /\ \E unwind \in BOOLEAN : Terminate(unwind, r.elems, r.gl)
            /\ UNCHANGED statusMessage
       ELSE /\ meshes_main' = MoveAssignMeshes(meshes_main, r.elems, r.gl).meshes
            /\ gl' = MoveAssignMeshes(meshes_main, r.elems, r.gl).gl
            /\ statusMessage' =
                   IF r.elems = <<>>
                   THEN StrErrorInitial \o Filename(fullPath) \o StrDragDrop
                   ELSE StrLoaded \o Filename(fullPath)
            /\ pc' = "shader"

StartWithModel(fullPath, scene, disk) ==
    /\ pc = "start"
    /\ InitialLoaded(fullPath, scene,
                     loadModel(fullPath, ParentPath(fullPath), scene, disk,
                               g_loadedTexturesCache, gl))
    /\ UNCHANGED <<g_droppedModelPath, g_newModelPathAvailable, shouldClose,
                   shaderId, render, camera, mouse, probe,
                   g_autoRotateModel, totalRotationAngle>>

\* glCreateProgram() after the two glCreateShader calls: shader and program
\* objects share one name space.
ProgramName == 3

\* What a shader file can be: missing (it cannot be opened), empty, a
\* source that does not compile, a source that compiles.
ShaderFiles == {"missing", "empty", "invalid", "valid"}

\* The lambda load: the text read, "" for a file that cannot be opened.
ShaderLoad(file) == IF file \in {"missing", "empty"} THEN "" ELSE file

\* The lambda compile: the shader name, 0 for an empty source and for a
\* compile error (the failed shader is deleted).
ShaderCompile(src, name) ==
    IF src = "" THEN 0
    ELSE IF src # "valid" THEN 0
    ELSE name

\* A mutant of the link check: a program that failed to link is kept.
LinkedIdUnchecked(id, link_ok) == id

\* The id left by the link check: a program that failed to link is deleted.
LinkedId(id, link_ok) == IF link_ok THEN id ELSE 0

\* Shader::Shader(vsPath, fsPath): the id it ends with.  vs and fs say what
\* the two files are, link_ok what GL_LINK_STATUS reports.
ShaderCtor(vs, fs, link_ok) ==
    IF ShaderLoad(vs) = "" \/ ShaderLoad(fs) = "" THEN 0
    ELSE IF ShaderCompile(ShaderLoad(vs), 1) = 0 \/ ShaderCompile(ShaderLoad(fs), 2) = 0
    THEN 0
    ELSE LinkedId(ProgramName, link_ok)

\* CameraController(window).  Angles are in tenths of a degree, the radius
\* in hundredths; the target is the initial target (0, 0, 0) moved by the
\* pan steps listed in pans.
CameraCtor ==
    [constructed |-> TRUE,
     radius |-> 100, yaw |-> 0 - 900, pitch |-> 0, pans |-> <<>>,
     initRadius |-> 100, initYaw |-> 0 - 900, initPitch |-> 0, initPans |-> <<>>,
     dragging |-> FALSE, dragButton |-> "LEFT", dragMods |-> 0,
     lastX |-> 0, lastY |-> 0]

\* main: Shader shader(...), then the test of shader.id.  On failure main
\* destroys the window, calls glfwTerminate and returns -1, which destroys
\* meshes_main; on success the light, the camera and the key callback are
\* set up and the render loop is entered.
ShaderInit(vs, fs, link_ok) ==
    /\ pc = "shader"
    /\ shaderId' = ShaderCtor(vs, fs, link_ok)
    /\ IF ShaderCtor(vs, fs, link_ok) # 0
       THEN /\ pc' = "poll"
            /\ camera' = CameraCtor
            /\ UNCHANGED <<meshes_main, gl>>
       ELSE /\ pc' = "exited"
            /\ meshes_main' = <<>>
            /\ gl' = DestroyAll(meshes_main, [gl EXCEPT !.ctx = FALSE])
            /\ UNCHANGED camera
    /\ UNCHANGED <<g_loadedTexturesCache, g_droppedModelPath,
                   g_newModelPathAvailable, statusMessage, shouldClose, lastLoad,
                   render, mouse, probe,
                   g_autoRotateModel, totalRotationAngle>>

\* A mutant of the path kept by a drop: the last path of the event.
DroppedPathLast(paths) == paths[Len(paths)]

\* "g_droppedModelPath = paths[0]": the path a drop event keeps.
DroppedPath(paths) == paths[1]

\* The body of drop_callback for the paths of one event.
DropEvent(paths) ==
    /\ pc = "poll"
    /\ IF Len(paths) > 0
       THEN /\ g_droppedModelPath' = DroppedPath(paths)
            /\ g_newModelPathAvailable' = TRUE
            /\ lastLoad' = NoLoad
       ELSE UNCHANGED <<g_droppedModelPath, g_newModelPathAvailable, lastLoad>>
    /\ UNCHANGED <<pc, meshes_main, g_loadedTexturesCache, statusMessage,
                   shouldClose, shaderId, gl, render, camera, mouse,
                   g_autoRotateModel, totalRotationAngle>>

\* drop_callback(window, count, paths), run by glfwPollEvents.
drop_callback(paths) == DropEvent(paths) /\ UNCHANGED probe

\* drop_callback, observed: probe keeps the first path of the event and the
\* request that was pending when the event arrived (<<>> for none).
DropObserved(paths) ==
    /\ DropEvent(paths)
    /\ probe' = IF Len(paths) > 0
                THEN [op |-> "drop", last |-> paths[1],
                      discarded |-> g_droppedModelPath]
                ELSE probe

\* The keys pressed during a session of loads, and all the keys the
\* callback tells apart.
Keys == {"ESCAPE", "OTHER"}
AllKeys == {"ESCAPE", "SPACE", "R", "OTHER"}
KeyActions == {"PRESS", "REPEAT", "RELEASE"}

\* A mutant of the Space test: a key repeat toggles too.
SpaceTogglesOnRepeat(key, action) == key = "SPACE" /\ action \in {"PRESS", "REPEAT"}

\* "key == GLFW_KEY_SPACE && action == GLFW_PRESS".
SpaceToggles(key, action) == key = "SPACE" /\ action = "PRESS"

\* A mutant of reset: the target is not restored.
ResetKeepsTarget(cam) ==
    [cam EXCEPT !.radius = cam.initRadius, !.yaw = cam.initYaw, !.pitch = cam.initPitch]

\* CameraController::reset.
Reset(cam) ==
    [cam EXCEPT !.radius = cam.initRadius, !.yaw = cam.initYaw,
                !.pitch = cam.initPitch, !.pans = cam.initPans]

\* GlobalKeyCallback(window, key, scancode, action, mods), run by
\* glfwPollEvents: on a press or a repeat ESC asks the window to close and
\* R resets the camera; a press of Space toggles the auto-rotation.
GlobalKeyCallback(key, action) ==
    /\ pc = "poll"
    /\ shouldClose' = IF action \in {"PRESS", "REPEAT"} /\ key = "ESCAPE"
                      THEN TRUE ELSE shouldClose
    /\ g_autoRotateModel' = IF action \in {"PRESS", "REPEAT"} /\ SpaceToggles(key, action)
                            THEN ~g_autoRotateModel ELSE g_autoRotateModel
    /\ camera' = IF action \in {"PRESS", "REPEAT"} /\ key = "R" /\ camera.constructed
                 THEN Reset(camera) ELSE camera
    /\ UNCHANGED <<pc, meshes_main, g_loadedTexturesCache, g_droppedModelPath,
                   g_newModelPathAvailable, statusMessage, shaderId, gl, lastLoad,
                   render, mouse, probe, totalRotationAngle>>

\* The effect of one GL command of Mesh::draw on the draw state.  The
\* uniform is written to the program in use; glDrawElements is recorded
\* with the state in effect.
ExecCommand(st, c) ==
    IF c.op = "glActiveTexture" THEN [st EXCEPT !.activeUnit = c.arg]
    ELSE IF c.op = "glBindTexture"
    THEN (IF st.activeUnit = 0 THEN [st EXCEPT !.unit0 = c.arg] ELSE st)
    ELSE IF c.op = "glUseProgram" THEN [st EXCEPT !.program = c.arg]
    ELSE IF c.op = "uHasDiffuseTexture"
    THEN (IF st.program # 0
          THEN [st EXCEPT !.uHasDiffuseTexture = c.arg,
                          !.uniforms = @ \cup {"uHasDiffuseTexture"}]
          ELSE st)
    ELSE IF c.op = "glBindVertexArray" THEN [st EXCEPT !.vao = c.arg]
    ELSE [st EXCEPT !.draws =
              Append(@, [vao |-> st.vao, count |-> c.arg, program |-> st.program,
                         uHasDiffuseTexture |-> st.uHasDiffuseTexture,
                         unit0 |-> st.unit0, uniforms |-> st.uniforms])]

RECURSIVE ExecAll(_, _)
ExecAll(st, commands) ==
    IF commands = <<>> THEN st
    ELSE ExecAll(ExecCommand(st, Head(commands)), Tail(commands))

RECURSIVE DrawMeshes(_, _, _)
\* for (auto &mesh_obj : meshes_main) mesh_obj.draw(shader).
DrawMeshes(meshes, program, st) ==
    IF meshes = <<>> THEN st
    ELSE DrawMeshes(Tail(meshes), program, ExecAll(st, Draw(Head(meshes), program)))

\* shader.use() of the render loop.
UseShader(program, st) == IF program # 0 THEN [st EXCEPT !.program = program] ELSE st

\* The uniforms the render loop writes before the draws.
CommonUniforms ==
    {"uModel", "uView", "uProj", "uViewPos", "uLightPos", "uLightColor",
     "uAmbientStrength", "uSpecularStrength", "uShininess", "uDiffuseSampler"}

\* A mutant of the uniform block: the sampler unit is not written.
SetCommonUniformsNoSampler(st) ==
    IF st.program # 0
    THEN [st EXCEPT !.uniforms = @ \cup (CommonUniforms \ {"uDiffuseSampler"})]
    ELSE st

\* The glUniform calls of the render loop, written to the program in use.
SetCommonUniforms(st) ==
    IF st.program # 0 THEN [st EXCEPT !.uniforms = @ \cup CommonUniforms] ELSE st

\* The drawing of one frame: glClear, and when a model is loaded
\* shader.use(), the uniforms and the draw of every mesh.
RenderFrame(meshes, program, st) ==
    IF meshes = <<>>
    THEN [st EXCEPT !.draws = <<>>, !.frames = TRUE, !.uniforms = {}]
    ELSE DrawMeshes(meshes, program,
                    SetCommonUniforms(
                        UseShader(program, [st EXCEPT !.draws = <<>>, !.frames = TRUE,
                                                      !.uniforms = {}])))

\* A mutant of the title: the status is shown as it is, whatever it says.
WindowTitleAnyStatus(meshes, status, autoRotate) ==
    StrModelViewer \o StrDash \o status

\* The argument of glfwSetWindowTitle in a frame.
WindowTitle(meshes, status, autoRotate) ==
    IF meshes = <<>> THEN StrModelViewer \o StrDash \o status
    ELSE StrModelViewer
         \o (IF status # <<>> /\ StartsWith(status, StrLoaded)
             THEN StrDash \o Substr(status, 8) ELSE <<>>)
         \o (IF autoRotate THEN <<>> ELSE StrPaused)

\* ROTATION_SPEED = 0.5f radian per second, in tenths.
ROTATION_SPEED == 5

MaxAngle == 10

\* The seconds between two frames: the session of loads holds the clock
\* still, the rotation of a displayed model lets it advance.
SessionDeltas == {0}
FrameDeltas == {0, 1}

\* A mutant of the rotation: the angle advances whatever the setting.
RotatedAlways(angle, meshes, autoRotate, deltaTime) ==
    IF meshes # <<>> THEN angle + ROTATION_SPEED * deltaTime ELSE angle

\* totalRotationAngle after a frame that took deltaTime.
Rotated(angle, meshes, autoRotate, deltaTime) ==
    IF meshes # <<>> /\ autoRotate THEN angle + ROTATION_SPEED * deltaTime ELSE angle

\* The loop condition !glfwWindowShouldClose(window), tested after a frame.
LoopTest == IF shouldClose THEN "cleanup" ELSE "poll"

\* One pass of the render loop after glfwPollEvents has returned, with no
\* pending load request: the frame is drawn and the loop condition tested.
FrameNoRequest(deltaTime) ==
    /\ pc = "poll"
    /\ ~g_newModelPathAvailable
    /\ render' = [RenderFrame(meshes_main, shaderId, render) EXCEPT
                     !.title = WindowTitle(meshes_main, statusMessage,
                                           g_autoRotateModel)]
    /\ totalRotationAngle' = Rotated(totalRotationAngle, meshes_main,
                                     g_autoRotateModel, deltaTime)
    /\ totalRotationAngle' <= MaxAngle
    /\ pc' = LoopTest
    /\ UNCHANGED <<meshes_main, g_loadedTexturesCache, g_droppedModelPath,
                   g_newModelPathAvailable, statusMessage, shouldClose, shaderId,
                   gl, lastLoad, camera, mouse, probe, g_autoRotateModel>>

\* The drop processing of main after loadModel returned newMeshes = r, and
\* the frame that follows it.
DropLoaded(currentDroppedFullPath, scene, r, deltaTime) ==
    /\ lastLoad' = LoadRecord("drop", currentDroppedFullPath, scene, r)
    /\ g_loadedTexturesCache' = r.cache
    /\ IF r.threw
       THEN /\ \E unwind \in BOOLEAN : Terminate(unwind, r.elems, r.gl)
            /\ UNCHANGED statusMessage
       ELSE IF r.elems # <<>>
       THEN /\ meshes_main' = MoveAssignMeshes(meshes_main, r.elems, r.gl).meshes
            /\ gl' = MoveAssignMeshes(meshes_main, r.elems, r.gl).gl
            /\ statusMessage' = StrLoaded \o Filename(currentDroppedFullPath)
            /\ pc' = LoopTest
       ELSE /\ meshes_main' = ClearMeshes(meshes_main, r.gl).meshes
            /\ gl' = ClearMeshes(meshes_main, r.gl).gl
            /\ statusMessage' = StrError \o Filename(currentDroppedFullPath)
                                    \o StrDragDrop
            /\ pc' = LoopTest
    /\ render' = IF r.threw THEN render
                 ELSE [RenderFrame(meshes_main', shaderId, render) EXCEPT
                          !.title = WindowTitle(meshes_main', statusMessage',
                                                g_autoRotateModel)]
    /\ totalRotationAngle' = IF r.threw THEN totalRotationAngle
                             ELSE Rotated(totalRotationAngle, meshes_main',
                                          g_autoRotateModel, deltaTime)
    /\ totalRotationAngle' <= MaxAngle

\* One pass of the render loop after glfwPollEvents has returned, with a
\* pending load request: the request is consumed and the model loaded, then
\* the frame is drawn and the loop condition tested.
FrameLoad(deltaTime) ==
    /\ pc = "poll"
    /\ g_newModelPathAvailable
    /\ g_droppedModelPath' = <<>>
    /\ g_newModelPathAvailable' = FALSE
    /\ \E scene \in ScenesAt(g_droppedModelPath) : \E disk \in DisksFor(scene) :
           DropLoaded(g_droppedModelPath, scene,
                      loadModel(g_droppedModelPath, ParentPath(g_droppedModelPath),
                                scene, disk, g_loadedTexturesCache, gl),
                      deltaTime)
    /\ UNCHANGED <<shouldClose, shaderId, camera, mouse, probe, g_autoRotateModel>>

RECURSIVE DeleteTextures(_, _)
\* The clean-up loop over the registry.
DeleteTextures(cache, g) ==
    IF cache = <<>> THEN g
    ELSE DeleteTextures(Tail(cache),
                        IF Head(cache).id # 0
                        THEN GLDelete(g, "texs", Head(cache).id) ELSE g)

\* main after the render loop: meshes_main.clear(), the registry textures
\* are deleted (a deleted texture that is bound is unbound), the registry
\* is cleared, the window and GLFW are shut down.
Shutdown ==
    /\ pc = "cleanup"
    /\ LET cleared == ClearMeshes(meshes_main, gl)
       IN  /\ meshes_main' = cleared.meshes
           /\ gl' = [DeleteTextures(g_loadedTexturesCache, cleared.gl)
                       EXCEPT !.ctx = FALSE]
    /\ render' = [render EXCEPT
                      !.unit0 = IF \E i \in DOMAIN g_loadedTexturesCache :
                                       g_loadedTexturesCache[i].id = @
                                THEN 0 ELSE @]
    /\ g_loadedTexturesCache' = <<>>
    /\ pc' = "done"
    /\ UNCHANGED <<g_droppedModelPath, g_newModelPathAvailable, statusMessage,
                   shouldClose, shaderId, lastLoad, camera, mouse, probe,
                   g_autoRotateModel, totalRotationAngle>>

Next ==
    \/ StartEmpty
    \/ \E fullPath \in ModelPaths :
           \E scene \in ScenesAt(fullPath) : \E disk \in DisksFor(scene) :
               StartWithModel(fullPath, scene, disk)
    \/ \E vs \in ShaderFiles, fs \in ShaderFiles, link_ok \in BOOLEAN :
           ShaderInit(vs, fs, link_ok)
    \/ \E paths \in SeqUpTo(ModelPaths, MaxDropPaths) : drop_callback(paths)
    \/ \E key \in Keys, action \in KeyActions : GlobalKeyCallback(key, action)
    \/ \E deltaTime \in SessionDeltas : FrameNoRequest(deltaTime)
    \/ \E deltaTime \in SessionDeltas : FrameLoad(deltaTime)
    \/ Shutdown

Spec == Init /\ [][Next]_vars

\* ------------------------------------------------------ CameraController
\* The mouse callbacks of the camera, run by glfwPollEvents while the
\* render loop shows the prompt.

MaxTurn == 1
MaxPans == 1

\* kRotateSpeed = 0.1f degree per pixel: one tenth of a degree.
kRotateSpeed == 1

MouseButtons == {"LEFT", "MIDDLE", "RIGHT"}

\* Cursor positions (pixels), far enough apart vertically for the pitch to
\* reach its limit.
CursorPositions == {<<0, 0>>, <<1, 0>>, <<0, 900>>}

\* glm::clamp(x, lo, hi).
Clamp(x, lo, hi) == IF x < lo THEN lo ELSE IF x > hi THEN hi ELSE x

\* CursorPosCallback, left button: yaw and pitch.
Rotate(cam, dx, dy) ==
    [cam EXCEPT !.yaw = @ + dx * kRotateSpeed,
                !.pitch = Clamp(@ + (0 - dy) * kRotateSpeed, 0 - 890, 890)]

\* CursorPosCallback, middle button: the target moves by -right * dx * step
\* and +up * dy * step, right and up being those of the orientation
\* (yaw, pitch) and step kPanSpeed * radius; the move is kept as its terms.
Pan(cam, dx, dy) ==
    [cam EXCEPT !.pans = Append(@, [yaw |-> cam.yaw, pitch |-> cam.pitch,
                                    radius |-> cam.radius, dx |-> dx, dy |-> dy])]

\* CursorPosCallback once dragging is known to be set.
Dragged(cam, xpos, ypos) ==
    IF cam.dragButton = "LEFT"
    THEN Rotate([cam EXCEPT !.lastX = xpos, !.lastY = ypos],
                xpos - cam.lastX, ypos - cam.lastY)
    ELSE IF cam.dragButton = "MIDDLE"
    THEN Pan([cam EXCEPT !.lastX = xpos, !.lastY = ypos],
             xpos - cam.lastX, ypos - cam.lastY)
    ELSE [cam EXCEPT !.lastX = xpos, !.lastY = ypos]

CameraInit ==
    /\ pc = "poll"
    /\ statusMessage = StrPrompt
    /\ shaderId = ProgramName
    /\ camera = CameraCtor
    /\ mouse = MouseInit
    /\ render = RenderInit
    /\ probe = NoProbe
    /\ g_autoRotateModel = TRUE
    /\ totalRotationAngle = 0
    /\ meshes_main = <<>>
    /\ g_loadedTexturesCache = <<>>
    /\ g_droppedModelPath = <<>>
    /\ g_newModelPathAvailable = FALSE
    /\ shouldClose = FALSE
    /\ gl = GLInit
    /\ lastLoad = NoLoad

\* MouseButtonCallback(window, button, action, mods).  The window system
\* reports a press of a button that is up and a release of one that is
\* down.
MouseButtonCallback(button, action, mods) ==
    /\ pc = "poll" /\ camera.constructed
    /\ IF action = "PRESS"
       THEN /\ button \notin mouse.held
            /\ mouse' = [mouse EXCEPT !.held = @ \cup {button}]
            /\ camera' = [camera EXCEPT !.dragging = TRUE, !.dragButton = button,
                                        !.dragMods = mods,
                                        !.lastX = mouse.x, !.lastY = mouse.y]
       ELSE /\ button \in mouse.held
            /\ mouse' = [mouse EXCEPT !.held = @ \ {button}]
            /\ camera' = [camera EXCEPT !.dragging = FALSE]
    /\ UNCHANGED <<pc, meshes_main, g_loadedTexturesCache, g_droppedModelPath,
                   g_newModelPathAvailable, statusMessage, shouldClose, shaderId,
                   gl, lastLoad, render, probe,
                   g_autoRotateModel, totalRotationAngle>>

\* CursorPosCallback(window, xpos, ypos), called when the cursor has moved
\* to (xpos, ypos).
CursorPosCallback(xpos, ypos) ==
    /\ pc = "poll" /\ camera.constructed
    /\ <<xpos, ypos>> # <<mouse.x, mouse.y>>
    /\ mouse' = [mouse EXCEPT !.x = xpos, !.y = ypos]
    /\ camera' = IF camera.dragging THEN Dragged(camera, xpos, ypos) ELSE camera
    /\ camera'.yaw - camera.initYaw \in (0 - MaxTurn)..MaxTurn
    /\ Len(camera'.pans) <= MaxPans
    /\ UNCHANGED <<pc, meshes_main, g_loadedTexturesCache, g_droppedModelPath,
                   g_newModelPathAvailable, statusMessage, shouldClose, shaderId,
                   gl, lastLoad, render, probe,
                   g_autoRotateModel, totalRotationAngle>>

CameraNext ==
    \/ \E button \in MouseButtons, action \in {"PRESS", "RELEASE"} :
           MouseButtonCallback(button, action, 0)
    \/ \E pos \in CursorPositions : CursorPosCallback(pos[1], pos[2])

CameraSpec == CameraInit /\ [][CameraNext]_vars

\* ------------------------------------------- LoadTexture and mesh buffers
\* Single calls of LoadTexture and of the buffer construction of loadModel,
\* on inputs wider than the scenes of the session above.

MaxVertices == 3
MaxFaces == 2

\* Texture tokens: embedded ones ("*0", "*00", "*1", "*x"), relative,
\* rooted, with a drive or scheme prefix, and the empty token.
ProbeTokens ==
    {<<"*", "0">>, <<"*", "0", "0">>, <<"*", "1">>, <<"*", "x">>,
     <<"a">>, <<"/", "a">>, <<"c", ":", "/", "a">>, <<"c", ":", "\\", "a">>, <<>>}

\* Model files: in two directories and in the working directory.
ProbeModelPaths == {<<"d", "/", "m">>, <<"e", "/", "m">>, <<"m">>}

\* The scene of the calls: two embedded textures, raw and compressed.
ProbeScene ==
    [ok |-> TRUE, meshes |-> <<>>,
     textures |-> <<RawTexel, [mHeight |-> 0, channels |-> 3]>>]

\* The file names a non-embedded token can stand for: the token and the
\* token joined to a directory.
ProbeImagePaths ==
    {t \in ProbeTokens : ~isEmbedded(t)}
    \cup {ParentPath(m) \o <<"/">> \o t :
              m \in ProbeModelPaths, t \in {u \in ProbeTokens : ~isEmbedded(u)}}

\* Disks holding one image file.
ProbeDisks == {[q \in {p} |-> 3] : p \in ProbeImagePaths}

\* The faces an import leaves for a mesh of n vertices: triangles, and the
\* lines and points that aiProcess_Triangulate does not touch.
ProbeFaces(n) ==
    {f \in {<<0, 1, 2>>, <<2, 0, 1>>, <<0, 1>>, <<0>>} :
        \A k \in DOMAIN f : f[k] < n}

ProbeMeshes ==
    UNION {{AiMesh(n, hasNormals, hasColors, hasUVs, faces) :
               hasNormals \in BOOLEAN, hasColors \in BOOLEAN, hasUVs \in BOOLEAN,
               faces \in SeqUpTo(ProbeFaces(n), MaxFaces)} :
           n \in 0..MaxVertices}

ProbeColors == {DefaultColor, <<1, 2, 3>>}

\* Two LoadTexture calls to come, each with its token and its model file.
TextureProbes ==
    [op : {"texture"},
     calls : SeqUpTo([token : ProbeTokens, modelFilePath : ProbeModelPaths], 2)
             \ {<<>>},
     scene : {ProbeScene}, disk : ProbeDisks, results : {<<>>}]

\* The buffers of one mesh to come.
MeshProbes ==
    [op : {"mesh"}, mesh_ptr : ProbeMeshes, defaultColor : ProbeColors,
     done : {FALSE}, vertexData : {<<>>}, indices : {<<>>}]

ProbeInit ==
    /\ probe \in TextureProbes \cup MeshProbes
    /\ render = RenderInit
    /\ camera = NoCamera
    /\ mouse = MouseInit
    /\ g_autoRotateModel = TRUE
    /\ totalRotationAngle = 0
    /\ pc = "start"
    /\ meshes_main = <<>>
    /\ g_loadedTexturesCache = <<>>
    /\ g_droppedModelPath = <<>>
    /\ g_newModelPathAvailable = FALSE
    /\ statusMessage = <<>>
    /\ shouldClose = FALSE
    /\ shaderId = 0
    /\ gl = GLInit
    /\ lastLoad = NoLoad

\* The state after a LoadTexture call that ended in r.
TextureLoaded(c, r) ==
    /\ probe' = [probe EXCEPT !.results =
                     Append(@, [token |-> c.token, modelFilePath |-> c.modelFilePath,
                                threw |-> r.threw, ret |-> r.ret, key |-> r.key,
                                hit |-> r.hit, decoded |-> r.decoded,
                                uploaded |-> r.uploaded])]
    /\ g_loadedTexturesCache' = r.cache
    /\ gl' = r.gl

\* LoadTexture(token, directory of the model, scene, modelFilePath), called
\* on the registry and the GL state the calls before it left.
CallLoadTexture ==
    /\ probe.op = "texture"
    /\ Len(probe.results) < Len(probe.calls)
    /\ \A k \in DOMAIN probe.results : ~probe.results[k].threw
    /\ TextureLoaded(probe.calls[Len(probe.results) + 1],
                     LoadTexture(probe.calls[Len(probe.results) + 1].token,
                                 ParentPath(probe.calls[Len(probe.results) + 1].modelFilePath),
                                 probe.scene,
                                 probe.calls[Len(probe.results) + 1].modelFilePath,
                                 probe.disk, g_loadedTexturesCache, gl))
    /\ UNCHANGED <<pc, meshes_main, g_droppedModelPath, g_newModelPathAvailable,
                   statusMessage, shouldClose, shaderId, lastLoad, render, camera,
                   mouse, g_autoRotateModel, totalRotationAngle>>

\* The vertex loop and the face loop of loadModel for one mesh.
FillBuffers ==
    /\ probe.op = "mesh"
    /\ ~probe.done
    /\ probe' = [probe EXCEPT !.done = TRUE,
                              !.vertexData = VertexData(probe.mesh_ptr, probe.defaultColor),
                              !.indices = Indices(probe.mesh_ptr)]
    /\ UNCHANGED <<pc, meshes_main, g_loadedTexturesCache, g_droppedModelPath,
                   g_newModelPathAvailable, statusMessage, shouldClose, shaderId,
                   gl, lastLoad, render, camera, mouse, g_autoRotateModel,
                   totalRotationAngle>>

ProbeNext == CallLoadTexture \/ FillBuffers

ProbeSpec == ProbeInit /\ [][ProbeNext]_vars

\* ------------------------------------------------------------------ claims

Calls == lastLoad.calls
CachedKeys(cache) == {cache[i].path : i \in DOMAIN cache}
HandleOf(cache, key) == cache[CacheFind(cache, key)].id

\* A step in which loadModel ran: the initial load or a consumed request.
LoadStep ==
    \/ pc = "start" /\ lastLoad'.kind = "initial"
    \/ g_newModelPathAvailable /\ ~g_newModelPathAvailable'

\* The registry is alive: from start-up until the clean-up of main.
RegistryAlive == pc \in {"start", "shader", "poll", "cleanup", "crashed", "exited"}

\* Number of decoder runs / uploads for key during the latest load.
DecodesOf(key) == Cardinality({k \in DOMAIN Calls : Calls[k].key = key /\ Calls[k].decoded})
EntriesOf(cache, key) == Cardinality({i \in DOMAIN cache : cache[i].path = key})

\* C1 as stated: whenever a load resolves a key twice, both calls return the
\* same GPU handle and the texture was decoded and uploaded exactly once.
C1_Original ==
    RegistryAlive =>
        \A i, j \in DOMAIN Calls :
            (i < j /\ Calls[i].key = Calls[j].key /\ ~Calls[j].threw) =>
                /\ Calls[i].ret = Calls[j].ret
                /\ EntriesOf(g_loadedTexturesCache, Calls[i].key) = 1
                /\ DecodesOf(Calls[i].key) <= 1

\* Within one load: after a call for a key returned a handle, every later
\* call for that key is a cache hit returning the same handle, with no
\* decoder run and no upload; each handle returned is the key's one entry;
\* a call that returned 0 was a miss and left no entry for its key.
C1_WithinLoad ==
    RegistryAlive =>
        /\ \A i, j \in DOMAIN Calls :
               (i < j /\ Calls[i].key = Calls[j].key /\ Calls[i].ret # 0) =>
                   /\ Calls[j].hit /\ ~Calls[j].threw
                   /\ Calls[j].ret = Calls[i].ret
                   /\ ~Calls[j].decoded /\ ~Calls[j].uploaded
        /\ \A i \in DOMAIN Calls :
               Calls[i].ret # 0 =>
                   /\ EntriesOf(g_loadedTexturesCache, Calls[i].key) = 1
                   /\ HandleOf(g_loadedTexturesCache, Calls[i].key) = Calls[i].ret
                   /\ Calls[i].uploaded = ~Calls[i].hit
        /\ \A i \in DOMAIN Calls :
               (Calls[i].ret = 0 /\ ~Calls[i].threw) =>
                   /\ ~Calls[i].hit /\ ~Calls[i].uploaded
                   /\ EntriesOf(g_loadedTexturesCache, Calls[i].key) = 0

\* Across loads: a key recorded before a load is a cache hit in that load,
\* returns the recorded handle and is neither decoded nor uploaded again.
C1_AcrossLoads ==
    LoadStep =>
        \A i \in DOMAIN lastLoad'.calls :
            LET c == lastLoad'.calls[i]
            IN  c.key \in CachedKeys(g_loadedTexturesCache) =>
                    /\ c.hit /\ ~c.threw /\ ~c.decoded /\ ~c.uploaded
                    /\ c.ret = HandleOf(g_loadedTexturesCache, c.key)
                    /\ EntriesOf(g_loadedTexturesCache', c.key) = 1

\* C1 (amended): once a resolve of cache key K has returned a handle, every
\* later resolve of K, in the same load or in a later load of the session,
\* returns that handle from the cache without decoding or uploading again,
\* and K has exactly one registry entry; a resolve that fails returns 0 and
\* records nothing, so every later resolve of that key misses the cache and
\* tries again.
C1_Idempotent == []C1_WithinLoad /\ [][C1_AcrossLoads]_vars

\* C1 witness: a load resolved one key twice, first by an upload, then by a
\* hit that returned the same handle.
C1_Witness ==
    /\ pc = "poll"
    /\ \E i, j \in DOMAIN Calls :
           /\ i < j /\ Calls[i].key = Calls[j].key
           /\ Calls[i].uploaded /\ Calls[j].hit
           /\ Calls[i].ret # 0 /\ Calls[j].ret = Calls[i].ret

NoDuplicateKeys(cache) ==
    \A i, j \in DOMAIN cache : cache[i].path = cache[j].path => i = j

\* C2: in every reachable state no two entries of g_loadedTexturesCache have
\* the same cache key, and a step never changes the handle recorded for a
\* key that stays recorded.
C2_OneHandlePerKey ==
    /\ []NoDuplicateKeys(g_loadedTexturesCache)
    /\ [][\A key \in CachedKeys(g_loadedTexturesCache)
                        \cap CachedKeys(g_loadedTexturesCache') :
              HandleOf(g_loadedTexturesCache', key)
                  = HandleOf(g_loadedTexturesCache, key)]_vars

\* C2 witness: a failed load followed loads that registered two textures.
C2_Witness ==
    /\ Len(g_loadedTexturesCache) >= 2
    /\ lastLoad.kind = "drop" /\ ~lastLoad.scene.ok

RECURSIVE UploadedEntries(_)
\* The registry entries of the calls that uploaded a texture, in call order.
UploadedEntries(calls) ==
    IF calls = <<>> THEN <<>>
    ELSE (IF Head(calls).uploaded
          THEN <<[id |-> Head(calls).ret, path |-> Head(calls).key]>> ELSE <<>>)
         \o UploadedEntries(Tail(calls))

\* Each LoadTexture call of the latest load: one entry more after a miss
\* whose decode succeeded, the same number of entries otherwise.
C3_PerCall ==
    \A i \in DOMAIN Calls :
        LET c == Calls[i]
        IN  /\ (~c.hit /\ ~c.threw /\ c.ret # 0) => c.after = c.before + 1
            /\ (c.hit \/ c.threw \/ c.ret = 0) => c.after = c.before

\* A step before the clean-up of main: the old entries stay as they are, and
\* a load appends exactly the entries of its successful misses.
C3_Step ==
    pc # "cleanup" =>
        IF LoadStep
        THEN g_loadedTexturesCache'
                 = g_loadedTexturesCache \o UploadedEntries(lastLoad'.calls)
        ELSE g_loadedTexturesCache' = g_loadedTexturesCache

\* C3: a LoadTexture call appends exactly one entry on a miss whose decode
\* succeeds and leaves the registry unchanged on a hit and on every failure;
\* no entry is removed or modified before the clean-up at shutdown.
C3_AppendOnly == []C3_PerCall /\ [][C3_Step]_vars

\* C3 witness: a load made an upload, a hit and a failed resolve, and left
\* the registry with the uploaded entry.
C3_Witness ==
    /\ pc = "poll" /\ lastLoad.kind = "drop"
    /\ Len(g_loadedTexturesCache) >= 1
    /\ \E i, j, k \in DOMAIN Calls :
           /\ Calls[i].uploaded
           /\ Calls[j].hit
           /\ ~Calls[k].hit /\ Calls[k].ret = 0 /\ ~Calls[k].threw

\* A step in which loadModel ran and the import failed.
FailedImportStep == LoadStep /\ ~lastLoad'.scene.ok

\* C4 as stated: a load whose import fails yields an empty mesh list and
\* leaves the displayed mesh collection as it was.
C4_Original ==
    [][FailedImportStep =>
           /\ lastLoad'.elems = <<>>
           /\ meshes_main' = meshes_main]_vars

\* C4 (amended): a load whose import fails yields an empty mesh list and
\* does not end the process; at start-up the displayed collection stays
\* empty, and after a failed drop the previously displayed collection is
\* cleared: its meshes are destroyed and the displayed collection is empty.
C4_FailedImportClears ==
    [][FailedImportStep =>
           /\ lastLoad'.elems = <<>> /\ ~lastLoad'.threw
           /\ pc' \in {"shader", "poll", "cleanup"}
           /\ meshes_main' = <<>>
           /\ gl' = DestroyAll(meshes_main, gl)
           /\ g_loadedTexturesCache' = g_loadedTexturesCache]_vars

\* C4 witness: a failed drop after a model with a texture had been loaded;
\* nothing is displayed any more.
C4_Witness ==
    /\ lastLoad.kind = "drop" /\ ~lastLoad.scene.ok
    /\ g_loadedTexturesCache # <<>>
    /\ meshes_main = <<>>
    /\ pc = "poll"

\* The LoadTexture calls of the latest load for mesh i and one slot kind.
SlotCalls(i, kind) ==
    {k \in DOMAIN Calls : Calls[k].mesh = i /\ Calls[k].kind = kind}

ExposesBoth(material) == material.base # <<>> /\ material.diffuse # <<>>

RECURSIVE ResolvedIds(_, _, _)
\* The handles returned by the calls of mesh i and slot kind, in call
\* order, without the failed ones.
ResolvedIds(calls, i, kind) ==
    IF calls = <<>> THEN <<>>
    ELSE (IF Head(calls).mesh = i /\ Head(calls).kind = kind /\ Head(calls).ret # 0
          THEN <<Head(calls).ret>> ELSE <<>>)
         \o ResolvedIds(Tail(calls), i, kind)

TextureIds(mesh) == [k \in DOMAIN mesh.textures |-> mesh.textures[k].id]

\* C5 as stated: for a material with base-color and diffuse slots no
\* LoadTexture call is made for a diffuse slot, whatever the base-color
\* slots resolved to.
C5_Original ==
    \A i \in DOMAIN lastLoad.scene.meshes :
        ExposesBoth(lastLoad.scene.meshes[i].material) =>
            SlotCalls(i, "diffuse") = {}

\* C5 (amended): for a material with base-color and diffuse slots, when at
\* least one base-color slot resolves to a handle, no LoadTexture call is
\* made for a diffuse slot and the textures returned are exactly the
\* resolved base-color slots; when every base-color slot returns 0, the
\* diffuse slots are attempted and the textures returned are the resolved
\* diffuse slots.
C5_BaseColorSuppressesDiffuse ==
    \A i \in DOMAIN lastLoad.scene.meshes :
        LET mat      == lastLoad.scene.meshes[i].material
            resolved == ResolvedIds(Calls, i, "base")
            allTried == /\ Cardinality(SlotCalls(i, "base")) = Len(mat.base)
                        /\ \A k \in SlotCalls(i, "base") : ~Calls[k].threw
        IN  ExposesBoth(mat) =>
              /\ resolved # <<>> =>
                    /\ SlotCalls(i, "diffuse") = {}
                    /\ i \in DOMAIN lastLoad.elems =>
                           TextureIds(lastLoad.elems[i]) = resolved
              /\ (allTried /\ resolved = <<>>) =>
                    /\ SlotCalls(i, "diffuse") # {}
                    /\ i \in DOMAIN lastLoad.elems =>
                           TextureIds(lastLoad.elems[i])
                               = ResolvedIds(Calls, i, "diffuse")

\* C5 witness: a returned load of a material with both kinds of slot whose
\* base-color slots resolved, and no diffuse call was made.
C5_Witness ==
    /\ ~lastLoad.threw
    /\ \E i \in DOMAIN lastLoad.elems :
           /\ ExposesBoth(lastLoad.scene.meshes[i].material)
           /\ ResolvedIds(Calls, i, "base") # <<>>
           /\ SlotCalls(i, "diffuse") = {}
           /\ TextureIds(lastLoad.elems[i]) = ResolvedIds(Calls, i, "base")

\* C6: every LoadTexture call returns the handle of a registry entry or 0,
\* and no exception leaves LoadTexture or loadModel.  (The code violates
\* it: std::stoi throws on an embedded token without digits.)
C6_NoExceptionEscapes ==
    /\ pc # "crashed"
    /\ ~lastLoad.threw
    /\ \A k \in DOMAIN Calls :
           /\ ~Calls[k].threw
           /\ RegistryAlive /\ pc # "done" /\ Calls[k].ret # 0 =>
                  \E e \in DOMAIN g_loadedTexturesCache :
                      /\ g_loadedTexturesCache[e].id = Calls[k].ret
                      /\ g_loadedTexturesCache[e].path = Calls[k].key

\* C7: when a slot of the latest load resolved to 0, loadModel still
\* returned one mesh per scene mesh, each mesh's texture list holds exactly
\* the resolved slots of its material in slot order, and a mesh left with
\* no texture is drawn with uHasDiffuseTexture 0.  (The code violates it
\* through the exception of C6.)
C7_FailedSlotDoesNotAbort ==
    (\E k \in DOMAIN Calls : Calls[k].ret = 0 /\ ~Calls[k].threw) =>
        /\ ~lastLoad.threw
        /\ Len(lastLoad.elems) = Len(lastLoad.scene.meshes)
        /\ \A i \in DOMAIN lastLoad.elems :
               LET m == lastLoad.elems[i]
               IN  /\ TextureIds(m) = ResolvedIds(Calls, i, "base")
                                        \o ResolvedIds(Calls, i, "diffuse")
                   /\ (m.textures = <<>> /\ Draw(m, ProgramName) # <<>>) =>
                          \E d \in DOMAIN Draw(m, ProgramName) :
                              Draw(m, ProgramName)[d]
                                  = [op |-> "uHasDiffuseTexture", arg |-> 0]

\* The vertex arrays / buffers held by the meshes of a vector.
OwnedVAOs(meshes) == {meshes[i].VAO : i \in DOMAIN meshes} \ {0}
OwnedBufs(meshes) ==
    ({meshes[i].VBO : i \in DOMAIN meshes}
         \cup {meshes[i].EBO : i \in DOMAIN meshes}) \ {0}

\* C8: no glDelete* call is ever made for a buffer handle that is not
\* allocated (no double free); from the first load on, through every
\* replacement of the displayed model and every frame, the allocated buffer
\* handles are exactly the ones of the displayed meshes (a superseded mesh
\* keeps nothing allocated); after the clean-up that follows the render
\* loop none is allocated.
C8_DeletedExactlyOnce ==
    /\ ~gl.badDelete
    /\ pc \in {"shader", "poll", "cleanup"} =>
           /\ gl.vaos = OwnedVAOs(meshes_main)
           /\ gl.bufs = OwnedBufs(meshes_main)
    /\ pc = "done" =>
           /\ meshes_main = <<>>
           /\ gl.vaos = {} /\ gl.bufs = {}
           /\ ~gl.noCtxCall

\* C8 witness: the session has shut down after a drop replaced a displayed
\* model (the vertex array name 1 was taken when the new meshes were built)
\* by a model of two meshes, the first of which was relocated when the
\* second was appended.
C8_Witness ==
    /\ pc = "done"
    /\ lastLoad.kind = "drop" /\ ~lastLoad.threw
    /\ Len(lastLoad.elems) = 2
    /\ lastLoad.elems[1].VAO > 1 /\ lastLoad.elems[2].VAO # 0
    /\ gl.vaos = {} /\ gl.bufs = {}

HandlesZero(m) == m.VAO = 0 /\ m.VBO = 0 /\ m.EBO = 0
SameHandles(a, b) ==
    /\ a.VAO = b.VAO /\ a.VBO = b.VBO /\ a.EBO = b.EBO
    /\ a.indexCount = b.indexCount

\* C9: in every reachable state the nonzero handles of the live meshes are
\* pairwise distinct (and allocated while the context exists); moving any
\* live mesh, by the move constructor or by move assignment, gives the
\* destination the handles and leaves the source with VAO, VBO, EBO and
\* index count 0, and the destructor of the source deletes nothing.
C9_ExclusiveOwnership ==
    /\ \A i, j \in DOMAIN meshes_main :
           LET a == meshes_main[i]
               b == meshes_main[j]
           IN  /\ (a.VAO # 0 /\ a.VAO = b.VAO) => i = j
               /\ (a.VBO # 0 /\ a.VBO = b.VBO) => i = j
               /\ (a.EBO # 0 /\ a.EBO = b.EBO) => i = j
               /\ a.VBO # 0 => a.VBO # b.EBO
    /\ gl.ctx => /\ OwnedVAOs(meshes_main) \subseteq gl.vaos
                 /\ OwnedBufs(meshes_main) \subseteq gl.bufs
    /\ \A i \in DOMAIN meshes_main :
           LET m  == meshes_main[i]
               mc == MeshMoveCtor(m)
           IN  /\ SameHandles(mc.self, m)
               /\ HandlesZero(mc.other) /\ mc.other.indexCount = 0
               /\ MeshDtor(mc.other, gl) = gl
               /\ \A j \in DOMAIN meshes_main :
                      j # i =>
                          LET ma == MeshMoveAssign(meshes_main[j], m, gl)
                          IN  /\ SameHandles(ma.self, m)
                              /\ HandlesZero(ma.other)
                              /\ ma.other.indexCount = 0
                              /\ MeshDtor(ma.other, ma.gl) = ma.gl
                              /\ gl.ctx =>
                                     /\ ma.gl.vaos = gl.vaos \ {meshes_main[j].VAO}
                                     /\ ~ma.gl.badDelete

\* C9 witness: two meshes with buffers are displayed; the first one was
\* moved when the vector of the load grew.
C9_Witness ==
    /\ pc = "poll"
    /\ Len(meshes_main) = 2
    /\ meshes_main[1].VAO # 0 /\ meshes_main[2].VAO # 0
    /\ meshes_main = lastLoad.elems

\* The mesh of the latest load at index i was built from an empty vertex
\* buffer or an empty index buffer.
BuiltEmpty(i) ==
    LET geometry == lastLoad.scene.meshes[i].geometry
    IN  geometry.mNumVertices = 0 \/ IndexCount(geometry) = 0

\* C10, while displayed: a mesh without handles keeps none and stays as it
\* is until a load or the clean-up destroys it.
C10_Step ==
    \A i \in DOMAIN meshes_main :
        (HandlesZero(meshes_main[i]) /\ i \in DOMAIN meshes_main' /\ ~LoadStep)
            => meshes_main'[i] = meshes_main[i]

\* C10, in a state: the meshes built from an empty buffer hold no handle;
\* draw of a mesh without vertex array or without indices, of a
\* default-constructed mesh and of a moved-from mesh issues no command.
C10_State ==
    /\ \A i \in DOMAIN lastLoad.elems :
           BuiltEmpty(i) =>
               /\ HandlesZero(lastLoad.elems[i])
               /\ Draw(lastLoad.elems[i], ProgramName) = <<>>
               /\ (~lastLoad.threw /\ pc \in {"shader", "poll", "cleanup"}) =>
                      meshes_main[i] = lastLoad.elems[i]
    /\ \A i \in DOMAIN meshes_main :
           LET m == meshes_main[i]
           IN  /\ m.VAO = 0 <=> m.VBO = 0
               /\ m.VAO = 0 <=> m.EBO = 0
               /\ (m.VAO = 0 \/ m.indexCount = 0) => Draw(m, shaderId) = <<>>
               /\ Draw(MeshMoveCtor(m).other, shaderId) = <<>>
    /\ Draw(EmptyMesh, shaderId) = <<>>

\* C10: a Mesh constructed from an empty vertex buffer or an empty index
\* buffer has VAO = VBO = EBO = 0 in every later state, and draw on it, on a
\* default-constructed mesh and on a moved-from mesh issues no GPU command.
C10_EmptyMeshInert == []C10_State /\ [][C10_Step]_vars

\* C10 witness: a displayed mesh built from an empty vertex buffer with
\* three indices and a texture, in a frame after its load.
C10_Witness ==
    /\ pc = "poll" /\ shaderId # 0
    /\ \E i \in DOMAIN meshes_main :
           /\ i \in DOMAIN lastLoad.elems /\ BuiltEmpty(i)
           /\ meshes_main[i] = lastLoad.elems[i]
           /\ HandlesZero(meshes_main[i])
           /\ meshes_main[i].indexCount = 3
           /\ meshes_main[i].textures # <<>>

\* The handles a returned load gave mesh i, in the order of its texture
\* list: the resolved base-color slots, then the resolved diffuse slots.
MeshResolved(i) == ResolvedIds(Calls, i, "base") \o ResolvedIds(Calls, i, "diffuse")

\* Element i of the list of the latest load is built from scene mesh i.
BuiltFrom(i) ==
    /\ lastLoad.elems[i].indexCount = IndexCount(lastLoad.scene.meshes[i].geometry)
    /\ HandlesZero(lastLoad.elems[i]) <=> BuiltEmpty(i)
    /\ TextureIds(lastLoad.elems[i]) = MeshResolved(i)

Drawable(m) == m.VAO # 0 /\ m.indexCount # 0

\* The texture list of mesh m contains an entry tagged diffuse.
HasDiffuseEntry(m) == \E i \in DOMAIN m.textures : m.textures[i].type = "texture_diffuse"

\* The handle of the first entry of m tagged diffuse.
FirstDiffuseEntry(m) ==
    m.textures[CHOOSE i \in DOMAIN m.textures :
                   /\ m.textures[i].type = "texture_diffuse"
                   /\ \A j \in 1..(i - 1) : m.textures[j].type # "texture_diffuse"].id

\* The meshes of meshes_main that are drawn in a frame, in order.
DrawnMeshes == SelectSeq(meshes_main, Drawable)

\* C12: in every frame the draw calls are those of the displayed meshes in
\* order, and for each of them the value of uHasDiffuseTexture in effect is
\* 1 exactly when the texture list of the drawn mesh has an entry tagged
\* diffuse, texture unit 0 is then bound to the first such entry, and a
\* mesh without textures is drawn with the flag 0 whatever was drawn
\* before it.
C12_FlagMatchesDrawnMesh ==
    (pc \in {"poll", "cleanup"} /\ render.frames) =>
        /\ Len(render.draws) = Len(DrawnMeshes)
        /\ \A k \in DOMAIN render.draws :
               /\ render.draws[k].vao = DrawnMeshes[k].VAO
               /\ render.draws[k].count = DrawnMeshes[k].indexCount
               /\ render.draws[k].uHasDiffuseTexture \in {0, 1}
               /\ render.draws[k].uHasDiffuseTexture = 1 <=> HasDiffuseEntry(DrawnMeshes[k])
               /\ HasDiffuseEntry(DrawnMeshes[k]) =>
                      render.draws[k].unit0 = FirstDiffuseEntry(DrawnMeshes[k])
               /\ DrawnMeshes[k].textures = <<>> =>
                      render.draws[k].uHasDiffuseTexture = 0

\* C12 witness: a frame that drew a textured mesh with the flag 1 and then
\* a mesh without textures with the flag 0, the texture of the first still
\* bound to unit 0.
C12_Witness ==
    /\ pc = "poll" /\ render.frames
    /\ Len(render.draws) = 2
    /\ render.draws[1].uHasDiffuseTexture = 1
    /\ render.draws[1].unit0 # 0
    /\ DrawnMeshes[2].textures = <<>>
    /\ render.draws[2].uHasDiffuseTexture = 0
    /\ render.draws[2].unit0 = render.draws[1].unit0

\* C13, the event: a drop of one or more paths stores its first path and
\* sets the flag; a drop of no path leaves both as they are.
C13_DropStep ==
    \A paths \in SeqUpTo(ModelPaths, MaxDropPaths) :
        drop_callback(paths) =>
            IF Len(paths) > 0
            THEN g_droppedModelPath' = paths[1] /\ g_newModelPathAvailable'
            ELSE UNCHANGED <<g_droppedModelPath, g_newModelPathAvailable>>

\* A step of the render loop that is not the delivery of an event by
\* glfwPollEvents: the rest of a pass, from the test of the request on.
FrameStep ==
    /\ pc = "poll"
    /\ ~\E paths \in SeqUpTo(ModelPaths, MaxDropPaths) : drop_callback(paths)
    /\ ~\E key \in Keys, action \in KeyActions : GlobalKeyCallback(key, action)

\* C13, the frame: a frame that starts with a pending request resets the
\* flag, clears the stored path and makes one loadModel call, for the
\* stored path; the flag is reset and a load is made from a drop by no
\* other step.
C13_ConsumeStep ==
    /\ (g_newModelPathAvailable /\ FrameStep) =>
           /\ ~g_newModelPathAvailable' /\ g_droppedModelPath' = <<>>
           /\ lastLoad # lastLoad'
           /\ lastLoad'.kind = "drop" /\ lastLoad'.path = g_droppedModelPath
    /\ (g_newModelPathAvailable /\ ~g_newModelPathAvailable') => FrameStep
    /\ (lastLoad' # lastLoad /\ lastLoad'.kind = "drop") =>
           /\ FrameStep
           /\ g_newModelPathAvailable /\ lastLoad'.path = g_droppedModelPath

\* C13, in a state: a pending request is a first path of a drop, it is
\* pending only while the loop polls, and the frame that follows cannot
\* skip it.
C13_Pending ==
    /\ g_newModelPathAvailable =>
           /\ g_droppedModelPath \in ModelPaths
           /\ pc = "poll"
           /\ ~ENABLED FrameNoRequest(0)
    /\ ~g_newModelPathAvailable => g_droppedModelPath = <<>>

\* C13: a drop event with one or more paths records only its first path
\* and sets the flag; the next frame resets the flag, clears the path and
\* calls loadModel once for that path; a drop event with no path changes
\* neither the flag nor the path.
C13_DropRequest == []C13_Pending /\ [][C13_DropStep /\ C13_ConsumeStep]_vars

\* C13 witness: a frame has just consumed the request of a drop, the load
\* it made is the load of the dropped path and the request is cleared.
C13_Witness ==
    /\ lastLoad.kind = "drop" /\ lastLoad.path = ModelFile
    /\ ~g_newModelPathAvailable /\ g_droppedModelPath = <<>>
    /\ pc = "poll" /\ render.frames

\* C14: the registry textures are deleted only at shutdown, and on every
\* path by which the process exits every registry texture has been deleted
\* and the registry emptied: while the loop runs every registry handle is
\* a live texture, and once main has returned no texture is left and the
\* registry is empty.
C14_ReleasedOnEveryExit ==
    /\ pc \in {"shader", "poll", "cleanup"} =>
           \A i \in DOMAIN g_loadedTexturesCache :
               g_loadedTexturesCache[i].id \in gl.texs
    /\ pc \in {"done", "exited"} =>
           gl.texs = {} /\ g_loadedTexturesCache = <<>>

RECURSIVE Decimal(_)
\* The decimal text of a natural number.
Decimal(n) ==
    IF n < 10 THEN <<Digits[n + 1]>>
    ELSE Decimal(n \div 10) \o <<Digits[(n % 10) + 1]>>

\* The LoadTexture calls made so far whose token begins with '*'.
EmbeddedCalls ==
    IF probe.op = "texture"
    THEN {k \in DOMAIN probe.results : isEmbedded(probe.results[k].token)}
    ELSE {}

\* The embedded index the token of call k denotes, as LoadTexture reads it;
\* some tokens denote none.
DenotesIndex(k) == ~Stoi(Substr(probe.results[k].token, 1)).threw
EmbeddedIndex(k) == Stoi(Substr(probe.results[k].token, 1)).value

\* The key the statement gives call k.
IndexKey(k) == probe.results[k].modelFilePath \o <<"*">> \o Decimal(EmbeddedIndex(k))

\* C15 as stated: the key of an embedded token is modelFilePath + "*" +
\* embeddedIndex, and two tokens denoting the same index of the same model
\* file share one key, one registry entry and one upload.
C15_Original ==
    /\ \A k \in EmbeddedCalls :
           (DenotesIndex(k) /\ EmbeddedIndex(k) >= 0) => probe.results[k].key = IndexKey(k)
    /\ ({1, 2} \subseteq EmbeddedCalls /\ DenotesIndex(1) /\ DenotesIndex(2)
          /\ EmbeddedIndex(1) = EmbeddedIndex(2)
          /\ probe.results[1].modelFilePath = probe.results[2].modelFilePath) =>
           /\ probe.results[1].key = probe.results[2].key
           /\ ~probe.results[2].uploaded
           /\ EntriesOf(g_loadedTexturesCache, probe.results[1].key) <= 1

\* C15 (amended): the key of a token beginning with '*' is modelFilePath
\* followed by the token as written; it is modelFilePath + "*" +
\* embeddedIndex exactly for a token that is '*' and the decimal text of
\* its index.  Two calls with the same token text for the same model file
\* share one key, one registry entry and one upload; two tokens with
\* different text that denote the same index of the same model file have
\* two keys and are uploaded twice; the same token in two models with
\* different file paths has two keys and two handles.
C15_KeyIsPathAndToken ==
    /\ \A k \in EmbeddedCalls :
           /\ probe.results[k].key = probe.results[k].modelFilePath \o probe.results[k].token
           /\ (DenotesIndex(k) /\ EmbeddedIndex(k) >= 0) =>
                  (probe.results[k].key = IndexKey(k)
                      <=> probe.results[k].token = <<"*">> \o Decimal(EmbeddedIndex(k)))
    /\ {1, 2} \subseteq EmbeddedCalls =>
           /\ (/\ probe.results[1].modelFilePath = probe.results[2].modelFilePath
               /\ probe.results[1].token = probe.results[2].token) =>
                  /\ probe.results[1].key = probe.results[2].key
                  /\ ~probe.results[2].uploaded
                  /\ probe.results[2].ret = probe.results[1].ret
                  /\ probe.results[2].hit <=> probe.results[1].uploaded
                  /\ EntriesOf(g_loadedTexturesCache, probe.results[1].key) <= 1
           /\ (/\ probe.results[1].modelFilePath = probe.results[2].modelFilePath
               /\ probe.results[1].token # probe.results[2].token
               /\ DenotesIndex(1) /\ DenotesIndex(2)
               /\ EmbeddedIndex(1) = EmbeddedIndex(2)) =>
                  /\ probe.results[1].key # probe.results[2].key
                  /\ ~probe.results[2].hit
                  /\ probe.results[2].uploaded <=> probe.results[1].uploaded
                  /\ probe.results[1].uploaded =>
                         probe.results[2].ret # probe.results[1].ret
           /\ (/\ probe.results[1].modelFilePath # probe.results[2].modelFilePath
               /\ probe.results[1].token = probe.results[2].token) =>
                  /\ probe.results[1].key # probe.results[2].key
                  /\ ~probe.results[2].hit
                  /\ probe.results[1].uploaded =>
                         /\ probe.results[2].uploaded
                         /\ probe.results[2].ret # probe.results[1].ret

\* C15 witness: "*0" and "*00" of one model file were both resolved, to two
\* keys, two registry entries and two handles.
C15_Witness ==
    /\ probe.op = "texture" /\ Len(probe.results) = 2
    /\ probe.results[1].token = <<"*", "0">>
    /\ probe.results[2].token = <<"*", "0", "0">>
    /\ probe.results[1].modelFilePath = probe.results[2].modelFilePath
    /\ probe.results[1].uploaded /\ probe.results[2].uploaded
    /\ probe.results[1].ret # probe.results[2].ret
    /\ Len(g_loadedTexturesCache) = 2

\* The LoadTexture calls made so far whose token does not begin with '*'.
FileCalls ==
    IF probe.op = "texture"
    THEN {k \in DOMAIN probe.results : ~isEmbedded(probe.results[k].token)}
    ELSE {}

\* The token looks absolute or carries a scheme prefix.
LooksAbsolute(token) ==
    \/ token # <<>> /\ Head(token) = "/"
    \/ \E i \in 1..(Len(token) - 1) :
           token[i] = ":" /\ token[i + 1] \in {"/", "\\"}

\* C16: the key of a token that does not begin with '*' is the token when
\* it begins with '/' or contains ":/" or ":\", and else the directory of
\* the model, one '/', and the token; the image decoder is given the key
\* as its path: a first call decodes, and it yields a texture exactly when
\* the disk holds an image under the key.
C16_FileKey ==
    \A k \in FileCalls :
        /\ probe.results[k].key =
               IF LooksAbsolute(probe.results[k].token)
               THEN probe.results[k].token
               ELSE ParentPath(probe.results[k].modelFilePath) \o <<"/">>
                        \o probe.results[k].token
        /\ ~probe.results[k].threw
        /\ ~probe.results[k].hit =>
               /\ probe.results[k].decoded
               /\ probe.results[k].uploaded <=> probe.results[k].key \in DOMAIN probe.disk
               /\ probe.results[k].ret # 0 <=> probe.results[k].key \in DOMAIN probe.disk

\* C16 witness: a relative token resolved through the model directory and
\* a token with a drive prefix resolved as written, each decoded from the
\* file under its key.
C16_Witness ==
    /\ probe.op = "texture" /\ Len(probe.results) = 2
    /\ probe.results[1].token = <<"a">>
    /\ probe.results[1].key = <<"d", "/", "a">>
    /\ probe.results[1].uploaded
    /\ probe.results[2].token = <<"c", ":", "\\", "a">>
    /\ probe.results[2].key = <<"c", ":", "\\", "a">>
    /\ probe.results[2].decoded /\ ~probe.results[2].uploaded

\* The floats of record v (zero based) of the vertex buffer built for the
\* mesh, from offset `from` (zero based) and `count` of them.
RecordFloats(v, from, count) ==
    SubSeq(probe.vertexData, 11 * v + from + 1, 11 * v + from + count)

\* C17: for a mesh of N source vertices the vertex buffer holds N records
\* of 11 floats in source order, and record v is the position of vertex v,
\* then its normal or (0, 0, 0) for a mesh without normals, then the r, g,
\* b of its first-channel color or the default color of the call for a
\* mesh without colors, then the x, y of its first-channel texture
\* coordinate or (0, 0) for a mesh without one.
C17_VertexRecords ==
    (probe.op = "mesh" /\ probe.done) =>
        /\ Len(probe.vertexData) = 11 * probe.mesh_ptr.mNumVertices
        /\ \A v \in 0..(probe.mesh_ptr.mNumVertices - 1) :
               /\ RecordFloats(v, 0, 3) = probe.mesh_ptr.mVertices[v + 1]
               /\ RecordFloats(v, 3, 3) =
                      IF probe.mesh_ptr.mNormals # <<>>
                      THEN probe.mesh_ptr.mNormals[v + 1] ELSE <<0, 0, 0>>
               /\ RecordFloats(v, 6, 3) =
                      IF probe.mesh_ptr.mColors # <<>>
                      THEN <<probe.mesh_ptr.mColors[v + 1][1],
                             probe.mesh_ptr.mColors[v + 1][2],
                             probe.mesh_ptr.mColors[v + 1][3]>>
                      ELSE probe.defaultColor
               /\ RecordFloats(v, 9, 2) =
                      IF probe.mesh_ptr.mTextureCoords # <<>>
                      THEN <<probe.mesh_ptr.mTextureCoords[v + 1][1],
                             probe.mesh_ptr.mTextureCoords[v + 1][2]>>
                      ELSE <<0, 0>>

\* C17 witness: the buffer of a mesh of two vertices with texture
\* coordinates and without normals and colors, built with the default
\* color (0.8, 0.8, 0.8).
C17_Witness ==
    /\ probe.op = "mesh" /\ probe.done
    /\ probe.mesh_ptr.mNumVertices = 2
    /\ probe.defaultColor = <<8, 8, 8>>
    /\ probe.vertexData = <<1, 2, 3, 0, 0, 0, 8, 8, 8, 31, 32,
                            101, 102, 103, 0, 0, 0, 8, 8, 8, 131, 132>>

RECURSIVE FaceOffset(_, _)
\* The number of indices of the faces before face f (one based).
FaceOffset(faces, f) ==
    IF f <= 1 THEN 0 ELSE FaceOffset(faces, f - 1) + Len(faces[f - 1])

\* The index buffer is the concatenation of the faces' index lists, in
\* face order and in per-face index order.
FacesConcatenated ==
    /\ Len(probe.indices) = FaceOffset(probe.mesh_ptr.mFaces, Len(probe.mesh_ptr.mFaces) + 1)
    /\ \A f \in DOMAIN probe.mesh_ptr.mFaces :
           \A j \in DOMAIN probe.mesh_ptr.mFaces[f] :
               probe.indices[FaceOffset(probe.mesh_ptr.mFaces, f) + j]
                   = probe.mesh_ptr.mFaces[f][j]

ShaderFails(vs, fs, link_ok) == vs # "valid" \/ fs # "valid" \/ ~link_ok

\* C19, the construction: on a failure the Shader ends with id 0 and main
\* returns its failure status from the test that follows; else the id is a
\* program name and the render loop is entered.
C19_Step ==
    \A vs \in ShaderFiles, fs \in ShaderFiles, link_ok \in BOOLEAN :
        ShaderInit(vs, fs, link_ok) =>
            IF ShaderFails(vs, fs, link_ok)
            THEN shaderId' = 0 /\ pc' = "exited" /\ render' = RenderInit
            ELSE shaderId' # 0 /\ pc' = "poll"

\* C19, in a state: without a valid program the render loop is never
\* entered and no frame is rendered; every draw call recorded was issued
\* with the program of the Shader in use.
C19_State ==
    /\ shaderId = 0 =>
           /\ pc \in {"start", "shader", "exited", "crashed"}
           /\ ~render.frames /\ render.draws = <<>> /\ render.program = 0
    /\ pc = "exited" => shaderId = 0
    /\ \A k \in DOMAIN render.draws :
           render.draws[k].program = shaderId /\ shaderId # 0

\* C19: if loading a shader source, compiling a shader or linking the
\* program fails, the Shader has id 0 and the process exits with its
\* failure status before the render loop; no frame is rendered and no
\* draw call is issued without a valid program.
C19_NoFrameWithoutProgram == []C19_State /\ [][C19_Step]_vars

\* C19 witness: the process has exited on a shader failure after an
\* initial model was loaded, without having rendered a frame.
C19_Witness ==
    /\ pc = "exited" /\ shaderId = 0
    /\ lastLoad.kind = "initial" /\ lastLoad.elems # <<>>
    /\ ~render.frames /\ render.draws = <<>>

\* C20, one cursor movement: with the left button down the yaw or the
\* pitch changes, with the middle button down the target is panned.
C20_Step ==
    \A pos \in CursorPositions :
        CursorPosCallback(pos[1], pos[2]) =>
            /\ "LEFT" \in mouse.held =>
                   <<camera'.yaw, camera'.pitch>> # <<camera.yaw, camera.pitch>>
            /\ "MIDDLE" \in mouse.held => camera'.pans # camera.pans

\* C20: for any sequence of mouse button and cursor events, while the left
\* button is held every cursor movement changes the yaw or the pitch of
\* the camera, and while the middle button is held every cursor movement
\* pans the orbit target, whatever other buttons were pressed or released
\* in between.
C20_HeldButtonDrags == [][C20_Step]_vars

\* ---------------------------------------------------------------------
\* C21  The window title and the status message follow the load status.

\* The states in which main holds the status message and the meshes.
C21_Running == pc \in {"shader", "poll", "cleanup"}

\* The messages of a failed load of the file p.
C21_ErrorMessages(p) ==
    {StrErrorInitial \o Filename(p) \o StrDragDrop,
     StrError \o Filename(p) \o StrDragDrop}

\* C21, the status: it starts with "Loaded: " exactly when a model is
\* displayed, and is otherwise the prompt or the message of a failed load.
C21_Status ==
    C21_Running =>
        /\ StartsWith(statusMessage, StrLoaded) <=> meshes_main # <<>>
        /\ meshes_main = <<>> =>
               \/ statusMessage = StrPrompt
               \/ \E p \in ModelPaths : statusMessage \in C21_ErrorMessages(p)

\* C21, the title set by the last frame: the file named by the status when
\* a model is displayed, the whole status otherwise.
C21_Title ==
    (render.frames /\ pc \in {"poll", "cleanup"}) =>
        IF meshes_main = <<>>
        THEN render.title = StrModelViewer \o StrDash \o statusMessage
        ELSE \E p \in ModelPaths :
                 /\ statusMessage = StrLoaded \o Filename(p)
                 /\ render.title \in
                        {StrModelViewer \o StrDash \o Filename(p),
                         StrModelViewer \o StrDash \o Filename(p) \o StrPaused}

\* C21, a step: the status and the displayed meshes change only by a load,
\* and the status then names the file that load read.
C21_LoadStep ==
    /\ (statusMessage' # statusMessage /\ C21_Running') =>
           \/ lastLoad' = lastLoad /\ pc = "start" /\ statusMessage' = StrPrompt
           \/ /\ lastLoad'.kind # "none" /\ ~lastLoad'.threw
              /\ statusMessage' =
                     IF meshes_main' # <<>>
                     THEN StrLoaded \o Filename(lastLoad'.path)
                     ELSE IF lastLoad'.kind = "initial"
                     THEN StrErrorInitial \o Filename(lastLoad'.path) \o StrDragDrop
                     ELSE StrError \o Filename(lastLoad'.path) \o StrDragDrop
    /\ (meshes_main' # meshes_main /\ C21_Running') =>
           /\ lastLoad'.kind # "none" /\ ~lastLoad'.threw
           /\ meshes_main' = lastLoad'.elems
           /\ meshes_main' # <<>> =>
                  statusMessage' = StrLoaded \o Filename(lastLoad'.path)

\* C21: at every frame the window title names the file of the displayed
\* model exactly when the mesh collection is non-empty and otherwise shows
\* the error of the last failed load or the prompt; the status starts with
\* "Loaded: " exactly when the collection is non-empty, and the file it
\* names is the one the displayed meshes were loaded from.
C21_TitleReflectsStatus == [](C21_Status /\ C21_Title) /\ [][C21_LoadStep]_vars

\* A model dropped after a failed load is displayed and named in the title.
C21_Witness ==
    /\ pc = "poll" /\ render.frames /\ meshes_main # <<>>
    /\ lastLoad.kind = "drop"
    /\ statusMessage = StrLoaded \o Filename(lastLoad.path)
    /\ render.title = StrModelViewer \o StrDash \o Filename(lastLoad.path)

\* ---------------------------------------------------------------------
\* C22  The uniforms of a frame.

\* The eleven uniforms of the fragment and vertex stage.
C22_AllUniforms == CommonUniforms \cup {"uHasDiffuseTexture"}

\* The state left by a frame of the render loop.
C22_AfterFrame == render.frames /\ pc \in {"poll", "cleanup"}

\* C22 as stated: every frame of the render loop writes all eleven
\* uniforms, and every draw call of the frame comes after the eleven.
C22_Original ==
    C22_AfterFrame =>
        /\ render.uniforms = C22_AllUniforms
        /\ \A k \in DOMAIN render.draws : render.draws[k].uniforms = C22_AllUniforms

\* C22, amended: every draw call of a frame is issued after all eleven
\* uniforms were written in that frame; a frame with a displayed model
\* writes the ten uniforms of the loop, and uHasDiffuseTexture as well when
\* a mesh is drawn; a frame without a model writes none.
C22_DrawsAfterUniforms ==
    C22_AfterFrame =>
        /\ \A k \in DOMAIN render.draws : render.draws[k].uniforms = C22_AllUniforms
        /\ Len(render.draws) = Len(DrawnMeshes)
        /\ render.uniforms = IF meshes_main = <<>> THEN {}
                             ELSE IF DrawnMeshes = <<>> THEN CommonUniforms
                             ELSE C22_AllUniforms

\* A frame that drew two meshes.
C22_Witness ==
    /\ C22_AfterFrame /\ Len(render.draws) = 2
    /\ render.draws[2].uniforms = C22_AllUniforms

\* A frame of a displayed model none of whose meshes can be drawn.
C22_InertFrame ==
    C22_AfterFrame /\ meshes_main # <<>> /\ DrawnMeshes = <<>>

\* ---------------------------------------------------------------------
\* The controls of a displayed model: the key, scroll, mouse button, cursor
\* and drop events that one call of glfwPollEvents delivers, in any number
\* and order, from the state in which the model d/m has been loaded and the
\* shader built.

\* kZoomSpeed = 0.25f, minRadius = 0.01f and maxRadius = 100.0f, in
\* hundredths.
kZoomSpeed == 25
minRadius == 1
maxRadius == 10000

\* The yoffset of a scroll event, in notches of the wheel.
ScrollOffsets == {0 - 400, 400}

\* A mutant of the zoom: the radius is not clamped.
ZoomedUnclamped(radius, yoffset) == radius - yoffset * kZoomSpeed

\* The radius after a scroll of yoffset.
Zoomed(radius, yoffset) == Clamp(radius - yoffset * kZoomSpeed, minRadius, maxRadius)

\* CameraController::ScrollCallback(window, xoffset, yoffset).
ScrollCallback(yoffset) ==
    /\ pc = "poll" /\ camera.constructed
    /\ camera' = [camera EXCEPT !.radius = Zoomed(camera.radius, yoffset)]
    /\ UNCHANGED <<pc, meshes_main, g_loadedTexturesCache, g_droppedModelPath,
                   g_newModelPathAvailable, statusMessage, shouldClose, shaderId,
                   gl, lastLoad, render, mouse, probe, g_autoRotateModel,
                   totalRotationAngle>>

\* The scene and the disk of the model displayed at the start.
ControlScene ==
    [ok |-> TRUE, meshes |-> <<[geometry |-> FullGeometry, material |-> LegacyDiffuse]>>,
     textures |-> <<>>]
ControlDisk == [p \in ImagePaths |-> 3]

\* The state after main loaded ModelFile with the result r, built the
\* shader and constructed the camera.
ControlStarted(r) ==
    /\ pc = "poll"
    /\ meshes_main = r.elems
    /\ g_loadedTexturesCache = r.cache
    /\ gl = r.gl
    /\ lastLoad = LoadRecord("initial", ModelFile, ControlScene, r)
    /\ statusMessage = StrLoaded \o Filename(ModelFile)
    /\ shaderId = ProgramName
    /\ camera = CameraCtor
    /\ mouse = MouseInit
    /\ render = RenderInit
    /\ probe = NoProbe
    /\ g_autoRotateModel = TRUE
    /\ totalRotationAngle = 0
    /\ g_droppedModelPath = <<>>
    /\ g_newModelPathAvailable = FALSE
    /\ shouldClose = FALSE

ControlInit ==
    ControlStarted(loadModel(ModelFile, ParentPath(ModelFile), ControlScene,
                             ControlDisk, <<>>, GLInit))

\* The window is not asked to close during the poll.
ControlKeys == {"SPACE", "R", "OTHER"}
ControlButtons == {"LEFT", "MIDDLE"}
ControlPositions == {<<0, 0>>, <<1, 1>>}

ControlNext ==
    \/ \E key \in ControlKeys, action \in KeyActions : GlobalKeyCallback(key, action)
    \/ \E yoffset \in ScrollOffsets : ScrollCallback(yoffset)
    \/ \E button \in ControlButtons, action \in {"PRESS", "RELEASE"} :
           MouseButtonCallback(button, action, 0)
    \/ \E pos \in ControlPositions : CursorPosCallback(pos[1], pos[2])
    \/ drop_callback(<<OtherFile>>)

ControlSpec == ControlInit /\ [][ControlNext]_vars

\* The rotation of a displayed model: the keys, the scroll wheel, the drops
\* of a file that cannot be imported and the frames, whose clock advances,
\* from the same start as ControlSpec.
RotationNext ==
    \/ \E key \in AllKeys, action \in KeyActions : GlobalKeyCallback(key, action)
    \/ \E yoffset \in ScrollOffsets : ScrollCallback(yoffset)
    \/ drop_callback(<<OtherFile>>)
    \/ \E deltaTime \in FrameDeltas : FrameNoRequest(deltaTime)
    \/ \E deltaTime \in FrameDeltas : FrameLoad(deltaTime)
    \/ Shutdown

RotationSpec == ControlInit /\ [][RotationNext]_vars

\* ---------------------------------------------------------------------
\* C23  The R key resets the camera and nothing else.

\* A press or a repeat of the R key.
C23_RKey == \E action \in {"PRESS", "REPEAT"} : GlobalKeyCallback("R", action)

\* The camera has the radius 1.0, the yaw -90, the pitch 0 and the target
\* at the origin.
C23_AsConstructed(cam) ==
    cam.radius = 100 /\ cam.yaw = 0 - 900 /\ cam.pitch = 0 /\ cam.pans = <<>>

C23_ResetStep ==
    C23_RKey =>
        /\ C23_AsConstructed(camera')
        /\ Reset(camera') = camera'
        /\ C23_AsConstructed(camera) => UNCHANGED vars
        /\ camera'.dragging = camera.dragging
        /\ camera'.dragButton = camera.dragButton
        /\ camera'.lastX = camera.lastX /\ camera'.lastY = camera.lastY
        /\ UNCHANGED <<mouse, g_autoRotateModel, meshes_main, g_droppedModelPath,
                       g_newModelPathAvailable, totalRotationAngle, statusMessage>>

\* C23: after any sequence of scroll, mouse button and cursor events, a
\* press or a repeat of R restores the radius, yaw, pitch and target of the
\* construction (1.0, -90, 0, origin); a second R changes nothing; the
\* reset leaves the drag state, the auto-rotation setting, the displayed
\* model and the pending load request unchanged.
C23_ResetRestores == [][C23_ResetStep]_vars

\* R can be pressed when scroll, orbit and pan have changed the radius, the
\* yaw, the pitch and the target, during a drag, with the auto-rotation
\* off, a model displayed and a load request pending.
C23_Witness ==
    /\ pc = "poll"
    /\ camera.radius # 100 /\ camera.yaw # 0 - 900 /\ camera.pitch # 0
    /\ camera.pans # <<>>
    /\ camera.dragging /\ ~g_autoRotateModel
    /\ meshes_main # <<>> /\ g_newModelPathAvailable

\* ---------------------------------------------------------------------
\* C24  Space toggles the auto-rotation; a paused model does not rotate.

C24_SpaceStep ==
    \A action \in KeyActions :
        GlobalKeyCallback("SPACE", action) =>
            g_autoRotateModel' = IF action = "PRESS" THEN ~g_autoRotateModel
                                 ELSE g_autoRotateModel

C24_AngleStep ==
    /\ ~g_autoRotateModel => totalRotationAngle' = totalRotationAngle
    /\ totalRotationAngle' # totalRotationAngle =>
           /\ meshes_main' # <<>> /\ render'.frames
           /\ g_autoRotateModel' = g_autoRotateModel
    /\ g_autoRotateModel' # g_autoRotateModel =>
           /\ totalRotationAngle' = totalRotationAngle
           /\ render' = render

\* C24: each press of Space flips the auto-rotation setting once, a repeat
\* or a release of Space leaves it unchanged, nothing else changes it, and
\* a frame rendered while the setting is off leaves the accumulated
\* rotation angle as the previous frame left it.
C24_SpaceTogglesRotation == [][C24_SpaceStep /\ C24_AngleStep]_vars

\* A frame was rendered with the rotation paused after the model had
\* rotated.
C24_Witness ==
    /\ pc = "poll" /\ ~g_autoRotateModel /\ totalRotationAngle = ROTATION_SPEED
    /\ meshes_main # <<>>
    /\ render.title = StrModelViewer \o StrDash \o Filename(ModelFile) \o StrPaused

\* ---------------------------------------------------------------------
\* C25  The orbit radius stays in [0.01, 100].

\* C25: in every reachable state, after scroll events of either sign
\* interleaved with other input and with resets, the radius of the camera
\* lies in [minRadius, maxRadius] = [0.01, 100].
C25_RadiusInRange ==
    camera.constructed => camera.radius >= 1 /\ camera.radius <= 10000

\* The radius was clamped at the upper end, then the target panned.
C25_Witness ==
    /\ camera.constructed /\ camera.radius = 10000
    /\ camera.pans # <<>> /\ camera.pans[1].radius = 10000

\* ---------------------------------------------------------------------
\* C26  No GPU object is released after the context is gone.

\* C26: on every path by which the process exits, every deletion of a
\* mesh's VAO, VBO or EBO and of a registry texture is made while the
\* OpenGL context exists, before the window is destroyed and GLFW
\* terminated.
C26_ReleasedWithContext == ~gl.noCtxCall

\* ---------------------------------------------------------------------
\* C27  The texture records of the displayed meshes name live registry
\*      entries.

\* The texture record t is backed by a registry entry with its handle and
\* its path, and the handle is an allocated texture.
C27_Backed(t) ==
    /\ t.id # 0
    /\ t.id \in gl.texs
    /\ \E j \in DOMAIN g_loadedTexturesCache :
           /\ g_loadedTexturesCache[j].id = t.id
           /\ g_loadedTexturesCache[j].path = t.path

\* C27: while the render loop runs, every texture record of a displayed
\* mesh has a nonzero handle that is the handle of a live registry entry
\* whose cache key is the record's path; every draw of a frame that samples
\* a texture has a live texture bound; the clean-up destroys the meshes
\* together with the registry textures, after the last frame.
C27_RecordsNameLiveEntries ==
    /\ pc \in {"shader", "poll", "cleanup"} =>
           \A i \in DOMAIN meshes_main :
               \A k \in DOMAIN meshes_main[i].textures :
                   C27_Backed(meshes_main[i].textures[k])
    /\ (render.frames /\ pc \in {"poll", "cleanup"}) =>
           \A d \in DOMAIN render.draws :
               render.draws[d].uHasDiffuseTexture = 1 =>
                   render.draws[d].unit0 \in gl.texs
    /\ pc = "done" => meshes_main = <<>> /\ gl.texs = {} /\ g_loadedTexturesCache = <<>>

\* A displayed mesh was drawn with its texture, the second entry of the
\* registry.
C27_Witness ==
    /\ pc = "poll" /\ render.frames
    /\ Len(g_loadedTexturesCache) = 2
    /\ \E i \in DOMAIN meshes_main :
           /\ meshes_main[i].textures # <<>>
           /\ meshes_main[i].textures[1].id = g_loadedTexturesCache[2].id
           /\ meshes_main[i].textures[1].path = g_loadedTexturesCache[2].path
    /\ \E d \in DOMAIN render.draws :
           render.draws[d].unit0 = g_loadedTexturesCache[2].id

\* ---------------------------------------------------------------------
\* C28  The allocated textures are those of the registry.

\* The handles recorded in the registry.
C28_RegistryIds ==
    {g_loadedTexturesCache[i].id : i \in DOMAIN g_loadedTexturesCache}

\* C28: after every LoadTexture call, whatever its outcome, the allocated
\* texture objects are exactly the handles recorded in the registry (the
\* texture generated at a miss is deleted on every path that does not
\* record it), no entry has the handle 0 and no two entries share one.
C28_TexturesAreRegistry ==
    probe.op = "texture" =>
        /\ gl.texs = C28_RegistryIds
        /\ 0 \notin C28_RegistryIds
        /\ \A i, j \in DOMAIN g_loadedTexturesCache :
               g_loadedTexturesCache[i].id = g_loadedTexturesCache[j].id => i = j

\* The same, for the calls that return.
C28_ReturnedCalls ==
    (probe.op = "texture" /\ \A k \in DOMAIN probe.results : ~probe.results[k].threw)
        => C28_TexturesAreRegistry

\* ---------------------------------------------------------------------
\* The drops of a session started without a model, observed.
DropNext ==
    \/ \E paths \in SeqUpTo(ModelPaths, MaxDropPaths) : DropObserved(paths)
    \/ \E key \in Keys, action \in KeyActions : GlobalKeyCallback(key, action)
    \/ \E deltaTime \in SessionDeltas : FrameNoRequest(deltaTime)
    \/ \E deltaTime \in SessionDeltas : FrameLoad(deltaTime)
    \/ Shutdown

DropSpec == CameraInit /\ [][DropNext]_vars

\* ---------------------------------------------------------------------
\* C29  Of several drops in one poll the last one wins.

\* A load of a dropped file was made in this step.
C29_LoadStep == lastLoad' # lastLoad /\ lastLoad'.kind = "drop"

C29_Step ==
    /\ \A paths \in SeqUpTo(ModelPaths, MaxDropPaths) \ {<<>>} :
           DropObserved(paths) =>
               /\ g_droppedModelPath' = paths[1] /\ g_newModelPathAvailable'
               /\ lastLoad'.kind = "none"
               /\ UNCHANGED <<meshes_main, g_loadedTexturesCache, gl, statusMessage,
                              render>>
    /\ C29_LoadStep =>
           /\ lastLoad.kind = "none"
           /\ g_newModelPathAvailable /\ lastLoad'.path = g_droppedModelPath
           /\ ~g_newModelPathAvailable' /\ g_droppedModelPath' = <<>>
           /\ probe' = probe
    /\ (g_newModelPathAvailable /\ ~g_newModelPathAvailable') => C29_LoadStep

C29_State ==
    /\ (probe.op = "drop" /\ lastLoad.kind = "drop") => lastLoad.path = probe.last
    /\ (probe.op = "drop" /\ g_newModelPathAvailable) => g_droppedModelPath = probe.last
    /\ g_newModelPathAvailable => pc = "poll"

\* C29: when several drop events are delivered in one poll, each replaces
\* the pending request without a load attempt, and the frame that follows
\* makes one load, of the first path of the last event; a load is made
\* only for a request pending since the last load, and the request is
\* cleared only by the step that loads it, so none is lost.
C29_LastDropWins == []C29_State /\ [][C29_Step]_vars

\* The frame has loaded d/m, dropped while the request for d/n was still
\* pending; d/n was never loaded (its load would have failed and left an
\* error status, and no load precedes this one).
C29_Witness ==
    /\ pc = "poll" /\ probe.op = "drop"
    /\ probe.discarded = OtherFile /\ probe.last = ModelFile
    /\ lastLoad.kind = "drop" /\ lastLoad.path = ModelFile
    /\ meshes_main # <<>>
    /\ statusMessage = StrLoaded \o Filename(ModelFile)

\* ---------------------------------------------------------------------
\* C30  The key of a relative token lies in the directory of the model.

\* The calls whose token is relative: it begins neither with '*' nor with
\* '/' and contains neither ":/" nor ":\".
C30_RelativeCalls == {k \in FileCalls : ~LooksAbsolute(probe.results[k].token)}

\* C30: for every relative token and every directory main derives from a
\* model path, the empty directory of a bare file name included, the key
\* begins with '/' only if the directory of the model begins with '/'.
C30_KeyInsideModelDirectory ==
    \A k \in C30_RelativeCalls :
        (probe.results[k].key # <<>> /\ Head(probe.results[k].key) = "/") =>
            /\ ParentPath(probe.results[k].modelFilePath) # <<>>
            /\ Head(ParentPath(probe.results[k].modelFilePath)) = "/"

\* The same for the models that are not given by a bare file name.
C30_WithDirectory ==
    \A k \in C30_RelativeCalls :
        ParentPath(probe.results[k].modelFilePath) # <<>> =>
            /\ StartsWith(probe.results[k].key,
                          ParentPath(probe.results[k].modelFilePath) \o <<"/">>)
            /\ Head(probe.results[k].key) = "/" =>
                   Head(ParentPath(probe.results[k].modelFilePath)) = "/"

====
